---- MODULE Spec2Model ----
(***************************************************************************)
(* A model of yao3060/openai-search: the local similarity search           *)
(* (src/lib/search.js), the local index build (src/scripts/build-index.js),*)
(* the managed retrieval query (src/lib/vector_store_search.js) and the    *)
(* managed index build (src/index.js, lines 319-517).                      *)
(*                                                                         *)
(* Numbers.  Embedding components are small integers.  A cosine score is   *)
(* kept exactly as the pair [num, den2] standing for num / sqrt(den2), and *)
(* scores are compared as real numbers.  MIN_SIMILARITY is kept in         *)
(* hundredths (0.30 is 30).                                                *)
(***************************************************************************)
EXTENDS Integers, Sequences, FiniteSets, TLC

VARIABLES
    file,               \* content of ./data/embeddings.json
    minSimilarityEnv,   \* process.env.MIN_SIMILARITY
    sPc,                \* position of semanticSearch
    query,              \* semanticSearch argument: a sequence of characters
    topK,               \* semanticSearch argument
    loaded,             \* value returned by loadEmbeddings
    sResult,            \* value returned by semanticSearch
    sError,             \* error thrown by semanticSearch
    snapshotReads,      \* fs.readFile calls issued by semanticSearch
    embeddingRequests,  \* openai.embeddings.create calls issued by semanticSearch
    env,                \* configuration read by vector_store_search.js
    vPc,                \* position of vectorStoreSearch
    vQuery,             \* vectorStoreSearch argument: a sequence of characters
    vTopK,              \* vectorStoreSearch argument
    vResult,            \* value returned by vectorStoreSearch
    vError,             \* error thrown by vectorStoreSearch
    retrievalRequests,  \* the client.responses.create calls issued, by binding mode
    vRemoteError,       \* vectorStoreSearch: the error e the request rejected with
    readContent,        \* the file content the last loadEmbeddings read
    bPc,                \* position of buildIndex
    posts,              \* the posts fetched by buildIndex
    documents,          \* buildIndex: documents
    embeddings,         \* generateEmbeddings: embeddings
    batchStart,         \* generateEmbeddings: i, the offset of the batch being requested
    bError,             \* the error buildIndex caught before process.exit(1)
    batchRejected,      \* an embedding request of this run was rejected
    fileWrites,         \* fs.writeFile calls on the snapshot file
    previousFile,       \* the snapshot file as it was before this build
    embeddingBatches,   \* generateEmbeddings: batchTexts of each request issued, in order
    embeddingResponses, \* generateEmbeddings: batchEmbeddings of each response, in order
    mPc,                \* position of main of the managed build
    files,              \* main: files, the temporary files written
    fileIds,            \* uploadFiles: fileIds
    batchRequests,      \* the file_ids of each batch-creation request issued
    job,                \* the batch job at the provider
    polled,             \* waitForBatchCompletion: data of the last status response
    elapsed,            \* waitForBatchCompletion: Date.now() - start
    timeoutMs,          \* waitForBatchCompletion: timeoutMs
    mError,             \* the error main().catch reported before process.exit(1)
    source,             \* the posts the content source holds
    perPageConfig,      \* per_page of WORDPRESS_POSTS_URL, 0 when it has none
    page,               \* the fetcher's page
    pageRequests,       \* the pages the fetcher has requested, in order
    fetched,            \* the fetcher's allPosts (all)
    fetchFailed,        \* a page request of the run was refused or failed
    cPc,                \* position of cleanup
    cOpts,              \* cleanup: opts
    cFiles,             \* the files listed for the loop cleanup is in
    cIdx,               \* the position of that loop in cFiles
    cFilename,          \* deleteVectorStoreFiles: filename, as last looked up
    cVsDeleted,         \* deleteVectorStoreFiles: deletedFiles
    cUploadedDeleted,   \* deleteUploadedFiles: deletedFiles
    deleteRequests,     \* the delete requests and unlinks issued, in order
    deleteOutcomes,     \* whether each of those requests succeeded, in the same order
    vsStore,            \* the ids of the files in the vector store
    storage,            \* the ids of the files in the Files storage
    localDir,           \* the names of the files in the local directory
    cosPc,              \* position of a call of cosineSimilarity
    vecA,               \* cosineSimilarity argument a
    vecB,               \* cosineSimilarity argument b
    similarity,         \* value returned by cosineSimilarity
    tPc,                \* position of the loop body of processPostsToDocuments
    combinedText,       \* processPostsToDocuments: text, a sequence of characters
    finalText,          \* processPostsToDocuments: finalText
    hPc,                \* position of the MCP handler called
    handler,            \* the tool or resource the handler belongs to
    queryArg,           \* the handler's query: a tool argument, or the part of the uri
    topKArg,            \* a tool's top_k argument
    response,           \* the value the handler returned
    searchCalls         \* the calls of semanticSearch and vectorStoreSearch by the handler

searchVars ==
    <<sPc, query, topK, loaded, sResult, sError, snapshotReads, embeddingRequests, readContent>>
buildVars ==
    <<bPc, posts, documents, embeddings, batchStart, bError, batchRejected, fileWrites, previousFile,
      embeddingBatches, embeddingResponses>>
vsVars == <<env, vPc, vQuery, vTopK, vResult, vError, retrievalRequests, vRemoteError>>

managedVars ==
    <<mPc, files, fileIds, batchRequests, job, polled, elapsed, timeoutMs, mError>>

fetchVars == <<source, perPageConfig, page, pageRequests, fetched, fetchFailed>>

cleanupVars ==
    <<cPc, cOpts, cFiles, cIdx, cFilename, cVsDeleted, cUploadedDeleted, deleteRequests, deleteOutcomes,
      vsStore, storage, localDir>>

cosineVars == <<cosPc, vecA, vecB, similarity>>

textVars == <<tPc, combinedText, finalText>>

mcpVars == <<hPc, handler, queryArg, topKArg, response, searchCalls>>

restVars == <<textVars, mcpVars>>

vars ==
    <<file, minSimilarityEnv, searchVars, vsVars, buildVars, managedVars, fetchVars,
      cleanupVars, cosineVars, restVars>>

-----------------------------------------------------------------------------
(* Bounds of the model *)

MaxSnapshotDocs == 3    \* documents in a snapshot read by the search
MaxItems == 4           \* items in a managed response
MaxBatches == 2         \* full batches of documents in an index build
MaxExtra == 1           \* documents beyond the last full batch
MaxReadDocs == 2        \* documents of a build that runs beside a search
MaxFiles == 2           \* files uploaded by a managed build
SlowPollIntervals == 400 \* the longest status request, in poll intervals
MaxSourcePosts == 5     \* posts of the content source in a managed fetch
MaxPerPage == 3         \* per_page configured for a managed fetch
MaxValue == 1000        \* the largest finite number of the arithmetic
MaxStoreFiles == 3      \* files in the vector store and in the Files storage

-----------------------------------------------------------------------------
(* Values *)

Min(a, b) == IF a < b THEN a ELSE b
Max(a, b) == IF a > b THEN a ELSE b

Whitespace == {" ", "\t"}

\* the vectors the embedding provider may return, and a snapshot may hold
Vectors == {<<1, 0>>, <<2, 0>>, <<1, 1>>, <<0, 0>>, <<-1, 0>>}

\* the vectors the provider may return for a query
QueryVectors == {<<1, 0>>, <<1, 1>>, <<0, 1>>, <<0, 0>>}

NoDocs == << >>

\* a snapshot file: its kind, and for a JSON object the fields it holds
FileOf(k, hd, d, he, e) ==
    [kind |-> k, total_documents |-> 0, hasDocuments |-> hd, documents |-> d,
     hasEmbeddings |-> he, embeddings |-> e]

Missing    == FileOf("missing", FALSE, NoDocs, FALSE, NoDocs)    \* ENOENT
Unreadable == FileOf("unreadable", FALSE, NoDocs, FALSE, NoDocs) \* EACCES, EISDIR
Garbage    == FileOf("garbage", FALSE, NoDocs, FALSE, NoDocs)    \* not JSON
Truncated  == FileOf("truncated", FALSE, NoDocs, FALSE, NoDocs)  \* a prefix of a JSON text
JsonNull   == FileOf("null", FALSE, NoDocs, FALSE, NoDocs)       \* the text null
JsonScalar == FileOf("scalar", FALSE, NoDocs, FALSE, NoDocs)     \* the text 123, "x", []

\* build-index.js:175-183  the JSON text saveEmbeddings writes
Snapshot(d, e) == [FileOf("object", TRUE, d, TRUE, e) EXCEPT !.total_documents = Len(d)]

-----------------------------------------------------------------------------
(* Pure functions of src/lib/search.js and src/scripts/search-cli.js *)

\* String.prototype.trim on a sequence of characters
RECURSIVE TrimStart(_)
TrimStart(s) ==
    IF s # << >> /\ Head(s) \in Whitespace THEN TrimStart(Tail(s)) ELSE s

RECURSIVE TrimEnd(_)
TrimEnd(s) ==
    IF s # << >> /\ s[Len(s)] \in Whitespace THEN TrimEnd(SubSeq(s, 1, Len(s) - 1)) ELSE s

Trim(s) == TrimEnd(TrimStart(s))
\* a validation that rejects only the empty string
InvalidQueryUntrimmed(q) == q = << >>

\* search.js:80  !query || typeof query !== 'string' || query.trim().length === 0
InvalidQuery(q) == q = << >> \/ Len(Trim(q)) = 0

\* parseFloat of the configured text, in hundredths; nan for no number
NaN100 == [nan |-> TRUE, v |-> 0]
Num100(n) == [nan |-> FALSE, v |-> n]

ParseFloat100(text) ==
    CASE text = "0"    -> Num100(0)
      [] text = "0.5"  -> Num100(50)
      [] text = "0.30" -> Num100(30)
      [] text = "-1"   -> Num100(-100)
      [] OTHER         -> NaN100      \* undefined, "", "abc"

\* search.js:16  parseFloat(process.env.MIN_SIMILARITY) || 0.30
MinSimilarityOf(envText) ==
    LET p == ParseFloat100(envText)
    IN  IF p.nan \/ p.v = 0 THEN 30 ELSE p.v

MIN_SIMILARITY == MinSimilarityOf(minSimilarityEnv)

\* search-cli.js:7-24  the top_k of parseArgs, from the token after --topk
\* (kind "none": no --topk given; "num": Number(token) is token.n; "text": Number(token) is NaN)
DefaultTopK == 10

ParseArgsTopK(token) ==
    IF token.kind = "num" THEN token.n ELSE DefaultTopK

\* Array.prototype.slice(0, end) for an integer end
Slice0(s, end) ==
    LET k == IF end < 0 THEN Max(Len(s) + end, 0) ELSE Min(end, Len(s))
    IN  SubSeq(s, 1, k)

\* The numbers of the program are IEEE doubles.  The model keeps their range,
\* scaled down: a result of magnitude above MaxValue is infinite, and 0 times
\* an infinite number, or the sum of opposite infinite numbers, is NaN.
\* Rounding is not modelled: a finite result is the exact one.
Infinity == MaxValue + 1
NaN == MaxValue + 2

IsFinite(x) == 0 - MaxValue <= x /\ x <= MaxValue

Overflow(x) ==
    IF x > MaxValue THEN Infinity ELSE IF x < 0 - MaxValue THEN 0 - Infinity ELSE x

Sign(x) == IF x < 0 THEN -1 ELSE IF x > 0 THEN 1 ELSE 0

\* x * y
Times(x, y) ==
    IF x = NaN \/ y = NaN THEN NaN
    ELSE IF IsFinite(x) /\ IsFinite(y) THEN Overflow(x * y)
    ELSE IF x = 0 \/ y = 0 THEN NaN
    ELSE Sign(x) * Sign(y) * Infinity

\* x + y
Plus(x, y) ==
    IF x = NaN \/ y = NaN THEN NaN
    ELSE IF IsFinite(x) /\ IsFinite(y) THEN Overflow(x + y)
    ELSE IF IsFinite(y) THEN x
    ELSE IF IsFinite(x) \/ x = y THEN y
    ELSE NaN

\* the value of s after s += f[1], ..., s += f[n], from s = 0
RECURSIVE SumTo(_, _)
SumTo(f, n) == IF n = 0 THEN 0 ELSE Plus(SumTo(f, n - 1), f[n])

\* a score is the number num / sqrt(den2); the scores 0 and NaN
ZeroScore == [num |-> 0, den2 |-> 1]
NaNScore == [num |-> 0, den2 |-> 0]

\* search.js:62-63  denominator === 0, for the sums of squares normA and normB
DenominatorIsZero(normA, normB) ==
    (normA = 0 \/ normB = 0) /\ IsFinite(normA) /\ IsFinite(normB)

\* search.js:50-64
cosineSimilarity(u, v) ==
    LET len   == Min(Len(u), Len(v))
        dot   == SumTo([i \in 1..len |-> Times(u[i], v[i])], len)
        normA == SumTo([i \in 1..len |-> Times(u[i], u[i])], len)
        normB == SumTo([i \in 1..len |-> Times(v[i], v[i])], len)
    IN  IF DenominatorIsZero(normA, normB) THEN ZeroScore
        ELSE IF normA = 0 \/ normB = 0 THEN NaNScore            \* dot / (0 * Infinity)
        ELSE IF IsFinite(normA) /\ IsFinite(normB)
        THEN [num |-> dot, den2 |-> normA * normB]
        ELSE IF IsFinite(dot) THEN ZeroScore ELSE NaNScore      \* dot / Infinity

\* sign(x) * x^2 * r: x * sqrt(r) < y * sqrt(q) iff SignedSquare(x, r) < SignedSquare(y, q)
SignedSquare(x, r) == IF x < 0 THEN 0 - (x * x * r) ELSE x * x * r

ScoreLess(s, t) == SignedSquare(s.num, t.den2) < SignedSquare(t.num, s.den2)
ScoreEq(s, t) == SignedSquare(s.num, t.den2) = SignedSquare(t.num, s.den2)

\* score >= min/100
ScoreAtLeast(s, min100) ==
    s # NaNScore /\ SignedSquare(100 * s.num, 1) >= SignedSquare(min100, s.den2)

\* search.js:112  the filter predicate
PassesThreshold(result) == ScoreAtLeast(result.score, MIN_SIMILARITY)

\* the sign of a.score - b.score, the ascending order
CompareAscending(a, b) ==
    IF ScoreLess(a.score, b.score) THEN -1 ELSE IF ScoreEq(a.score, b.score) THEN 0 ELSE 1

\* search.js:113  the sign of (a, b) => b.score - a.score
CompareScores(a, b) ==
    IF ScoreLess(a.score, b.score) THEN 1 ELSE IF ScoreEq(a.score, b.score) THEN 0 ELSE -1

\* Array.prototype.sort is stable: x is placed behind every element that does
\* not compare greater than it
InsertSorted(s, x) ==
    LET after == {i \in 1..Len(s) : CompareScores(s[i], x) > 0}
        p     == IF after = {} THEN Len(s) + 1 ELSE CHOOSE i \in after : \A j \in after : i <= j
    IN  SubSeq(s, 1, p - 1) \o <<x>> \o SubSeq(s, p, Len(s))

RECURSIVE SortByScore(_)
SortByScore(s) ==
    IF s = << >> THEN << >>
    ELSE InsertSorted(SortByScore(SubSeq(s, 1, Len(s) - 1)), s[Len(s)])

RECURSIVE FilterSeq(_, _)
FilterSeq(s, keep) ==
    IF s = << >> THEN << >>
    ELSE IF keep[1] THEN <<Head(s)>> \o FilterSeq(Tail(s), Tail(keep))
         ELSE FilterSeq(Tail(s), Tail(keep))

\* search.js:22-30  what loadEmbeddings returns for a file content
EmptyIndex ==
    [isNull |-> FALSE, hasDocuments |-> TRUE, documents |-> NoDocs,
     hasEmbeddings |-> TRUE, embeddings |-> NoDocs]

loadEmbeddings(f) ==
    CASE f.kind \in {"missing", "unreadable"} -> EmptyIndex     \* readFile rejects
      [] f.kind \in {"garbage", "truncated"}  -> EmptyIndex     \* JSON.parse throws
      [] f.kind = "null" ->
            [isNull |-> TRUE, hasDocuments |-> FALSE, documents |-> NoDocs,
             hasEmbeddings |-> FALSE, embeddings |-> NoDocs]
      [] f.kind = "scalar" ->
            [isNull |-> FALSE, hasDocuments |-> FALSE, documents |-> NoDocs,
             hasEmbeddings |-> FALSE, embeddings |-> NoDocs]
      [] OTHER ->
            [isNull |-> FALSE, hasDocuments |-> f.hasDocuments, documents |-> f.documents,
             hasEmbeddings |-> f.hasEmbeddings, embeddings |-> f.embeddings]

\* search.js:105-111  the map throws a TypeError when embeddings[index] is undefined
MapThrows(ix) ==
    Len(ix.documents) > 0 /\ (~ix.hasEmbeddings \/ Len(ix.embeddings) < Len(ix.documents))

\* search.js:105-114
Scored(ix, q) ==
    [i \in 1..Len(ix.documents) |->
        [doc |-> ix.documents[i], score |-> cosineSimilarity(q, ix.embeddings[i])]]

RankResults(ix, q, k) ==
    LET scored == Scored(ix, q)
        keep   == [i \in 1..Len(scored) |-> PassesThreshold(scored[i])]
    IN  Slice0(SortByScore(FilterSeq(scored, keep)), k)

-----------------------------------------------------------------------------
(* semanticSearch, src/lib/search.js:72-131, one action per await *)

NoResult == [total_results |-> 0, results |-> << >>, message |-> ""]

\* search.js:50-64  a call of cosineSimilarity returns
CosineSimilarityReturn ==
    /\ cosPc = "called"
    /\ similarity' = cosineSimilarity(vecA, vecB)
    /\ cosPc' = "returned"
    /\ UNCHANGED <<vecA, vecB>>
    /\ UNCHANGED <<file, minSimilarityEnv, searchVars, vsVars, buildVars, managedVars>>
    /\ UNCHANGED <<fetchVars, cleanupVars, restVars>>

NoDocumentsMessage == "No documents found. Please run the indexing script first."

\* search.js:75-85  validation, then the snapshot read is issued
SemanticSearchBegin ==
    /\ sPc = "start"
    /\ IF InvalidQuery(query)
       THEN /\ sPc' = "thrown"
            /\ sError' = "Semantic search failed: Query must be a non-empty string"
            /\ UNCHANGED snapshotReads
       ELSE /\ sPc' = "reading"
            /\ snapshotReads' = snapshotReads + 1
            /\ UNCHANGED sError
    /\ UNCHANGED <<file, minSimilarityEnv, query, topK, loaded, sResult, embeddingRequests>>
    /\ UNCHANGED <<readContent, vsVars, buildVars, managedVars, fetchVars, cleanupVars, cosineVars, restVars>>

\* search.js:85-100  loadEmbeddings resolves; empty index answer, or the
\* embedding request is issued
LoadEmbeddingsReturn ==
    /\ sPc = "reading"
    /\ readContent' = file
    /\ LET ix == loadEmbeddings(file)
       IN  IF ix.isNull
           THEN \* destructuring null throws a TypeError, caught at search.js:127
                /\ sPc' = "thrown"
                /\ sError' = "Semantic search failed: TypeError"
                /\ UNCHANGED <<loaded, sResult, embeddingRequests>>
           ELSE IF ~ix.hasDocuments \/ Len(ix.documents) = 0
           THEN /\ sPc' = "returned"
                /\ sResult' = [total_results |-> 0, results |-> << >>,
                               message |-> NoDocumentsMessage]
                /\ UNCHANGED <<loaded, sError, embeddingRequests>>
           ELSE /\ sPc' = "embedding"
                /\ loaded' = ix
                /\ embeddingRequests' = embeddingRequests + 1
                /\ UNCHANGED <<sResult, sError>>
    /\ UNCHANGED <<file, minSimilarityEnv, query, topK, snapshotReads>>
    /\ UNCHANGED <<vsVars, buildVars, managedVars, fetchVars, cleanupVars, cosineVars, restVars>>

\* search.js:35-45, 100-125  the embedding request resolves; ranking
GenerateQueryEmbeddingReturn ==
    /\ sPc = "embedding"
    /\ \/ /\ sPc' = "thrown"
          /\ sError' = "Semantic search failed: Failed to generate embedding"
          /\ UNCHANGED sResult
       \/ \E q \in QueryVectors :
            IF MapThrows(loaded)
            THEN /\ sPc' = "thrown"
                 /\ sError' = "Semantic search failed: TypeError"
                 /\ UNCHANGED sResult
            ELSE LET results == RankResults(loaded, q, topK)
                 IN  /\ sPc' = "returned"
                     /\ sResult' = [total_results |-> Len(results), results |-> results,
                                    message |-> ""]
                     /\ UNCHANGED sError
    /\ UNCHANGED <<file, minSimilarityEnv, query, topK, loaded, snapshotReads, embeddingRequests>>
    /\ UNCHANGED <<readContent, vsVars, buildVars, managedVars, fetchVars, cleanupVars, cosineVars, restVars>>

-----------------------------------------------------------------------------
(* vectorStoreSearch, src/lib/vector_store_search.js:21-107 *)

\* an item of the response; scores are in millionths
Item(id, hs, sc, hr, rk) ==
    [id |-> id, hasScore |-> hs, score |-> sc, hasRank |-> hr, original_rank |-> rk]

\* the shapes an item may have: bare, with a finite numeric score, with a numeric original_rank
ItemShapes == {"bare", "scored", "ranked"}

ItemOf(shape, id) ==
    CASE shape = "scored" -> Item(id, TRUE, 900000, FALSE, 0)
      [] shape = "ranked" -> Item(id, FALSE, 0, TRUE, 7)
      [] OTHER            -> Item(id, FALSE, 0, FALSE, 0)

\* the lists a response may hold: items that are all different, or items that
\* all point to the same link
ItemLists ==
    UNION { {[i \in 1..n |-> ItemOf(sh[i], IF dup THEN 1 ELSE i)] :
                 sh \in [1..n -> ItemShapes], dup \in BOOLEAN} : n \in 0..MaxItems }

\* response.output_text: its kind, and for a JSON object the two fields read
TextOf(k, hr, r, hi, i) ==
    [kind |-> k, hasResults |-> hr, results |-> r, hasItems |-> hi, items |-> i]

\* vector_store_search.js:72-79  JSON.parse of the text, with the fallback shape
ParseResponse(text) ==
    IF text.kind \in {"empty", "not_json"}
    THEN [hasResults |-> FALSE, results |-> << >>, hasItems |-> TRUE, items |-> << >>,
          hasRawText |-> TRUE]
    ELSE IF text.kind = "object"
    THEN [hasResults |-> text.hasResults, results |-> text.results,
          hasItems |-> text.hasItems, items |-> text.items, hasRawText |-> FALSE]
    ELSE \* null, a number, a string
         [hasResults |-> FALSE, results |-> << >>, hasItems |-> FALSE, items |-> << >>,
          hasRawText |-> FALSE]

\* vector_store_search.js:82-84
PickItems(json) ==
    IF json.hasResults THEN json.results
    ELSE IF json.hasItems THEN json.items ELSE << >>

\* a decay that divides the rank by the list length
FallbackScoreByLength(i, n) ==
    IF n <= 1 THEN 1000000
    ELSE (2 * 1000000 * (n - i) + n) \div (2 * n)

\* vector_store_search.js:91,94  Number(fallback.toFixed(6)), in millionths
FallbackScore(i, n) ==
    IF n <= 1 THEN 1000000
    ELSE LET d == Max(1, n - 1)
         IN  (2 * 1000000 * (d - i) + d) \div (2 * d)

\* a backfill that numbers the ranks from 0
ReconcileItemsRankFromZero(items, k) ==
    LET sliced == Slice0(items, k)
        n      == Len(sliced)
    IN  [p \in 1..n |->
            [id |-> sliced[p].id,
             score |-> IF sliced[p].hasScore THEN sliced[p].score ELSE FallbackScore(p - 1, n),
             original_rank |-> IF sliced[p].hasRank THEN sliced[p].original_rank ELSE p - 1]]

\* vector_store_search.js:87-97  i is the 0-based position
ReconcileItems(items, k) ==
    LET sliced == Slice0(items, k)
        n      == Len(sliced)
    IN  [p \in 1..n |->
            [id |-> sliced[p].id,
             score |-> IF sliced[p].hasScore THEN sliced[p].score ELSE FallbackScore(p - 1, n),
             original_rank |-> IF sliced[p].hasRank THEN sliced[p].original_rank ELSE p]]

\* no response text
NoText == TextOf("none", FALSE, << >>, FALSE, << >>)

NoVsResult == [results |-> << >>, hasRawText |-> FALSE, hasText |-> FALSE, raw |-> NoText]

BindingHint == "This server rejects inline vector store binding. Set OPENAI_VECTOR_ASSISTANT_ID"

\* vector_store_search.js:16-19, 22-23, 34-61  checks, then the one request is issued
VectorStoreSearchBegin ==
    /\ vPc = "start"
    /\ IF ~env.apiKey
       THEN vPc' = "thrown" /\ vError' = "Missing OPENAI_API_KEY" /\ UNCHANGED retrievalRequests
       ELSE IF ~env.vectorStoreId
       THEN vPc' = "thrown" /\ vError' = "Missing OPENAI_VECTOR_STORE_ID"
            /\ UNCHANGED retrievalRequests
       ELSE IF vQuery = << >> \/ Trim(vQuery) = << >>
       THEN vPc' = "thrown" /\ vError' = "Query must be non-empty" /\ UNCHANGED retrievalRequests
       ELSE /\ vPc' = "requesting"
            /\ retrievalRequests' =
                   Append(retrievalRequests, IF env.assistantId THEN "assistant" ELSE "inline")
            /\ UNCHANGED vError
    /\ UNCHANGED <<env, vQuery, vTopK, vResult, vRemoteError>>
    /\ UNCHANGED <<file, minSimilarityEnv, searchVars, buildVars, managedVars, fetchVars, cleanupVars, cosineVars, restVars>>

\* the rejection of the inline binding field, and of the agent identifier field
InlineBindingRejected == "Unknown parameter: 'tools'"
AssistantIdRejected == "Unknown parameter: 'assistant_id'"

RemoteErrors == {InlineBindingRejected, AssistantIdRejected, "429 Too Many Requests"}

\* the errors the service may answer a request of the given mode with
RemoteErrorsOf(mode) ==
    RemoteErrors \ (IF mode = "inline" THEN {AssistantIdRejected} ELSE {InlineBindingRejected})

\* vector_store_search.js:65  /Unknown parameter/i.test(msg)
MatchesUnknownParameter(msg) == msg \in {InlineBindingRejected, AssistantIdRejected}

\* a catch that issues the request again, up to three requests in all
ResponsesCreateFailsRetries ==
    /\ vPc = "requesting"
    /\ \E e \in RemoteErrorsOf(retrievalRequests[Len(retrievalRequests)]) :
           /\ vRemoteError' = e
           /\ IF Len(retrievalRequests) < 3
              THEN /\ vPc' = "requesting"
                   /\ retrievalRequests' = Append(retrievalRequests, retrievalRequests[1])
                   /\ UNCHANGED vError
              ELSE /\ vPc' = "thrown"
                   /\ vError' = IF MatchesUnknownParameter(e) THEN BindingHint ELSE e
                   /\ UNCHANGED retrievalRequests
    /\ UNCHANGED <<env, vQuery, vTopK, vResult>>
    /\ UNCHANGED <<file, minSimilarityEnv, searchVars, buildVars, managedVars, fetchVars, cleanupVars, cosineVars, restVars>>

\* vector_store_search.js:62-71  the request rejects
ResponsesCreateFails ==
    /\ vPc = "requesting"
    /\ \E e \in RemoteErrorsOf(retrievalRequests[Len(retrievalRequests)]) :
           /\ vPc' = "thrown"
           /\ vRemoteError' = e
           /\ vError' = IF MatchesUnknownParameter(e) THEN BindingHint ELSE e
    /\ UNCHANGED <<env, vQuery, vTopK, vResult, retrievalRequests>>
    /\ UNCHANGED <<file, minSimilarityEnv, searchVars, buildVars, managedVars, fetchVars, cleanupVars, cosineVars, restVars>>

ResponseTexts ==
    {TextOf(k, FALSE, << >>, FALSE, << >>) : k \in {"empty", "not_json", "null"}}
        \cup {TextOf("object", FALSE, << >>, FALSE, << >>)}
        \cup {TextOf("object", TRUE, r, FALSE, << >>) : r \in ItemLists}
        \cup {TextOf("object", FALSE, << >>, TRUE, i) : i \in ItemLists}
        \cup {TextOf("object", TRUE, << >>, TRUE, i) : i \in ItemLists}

\* vector_store_search.js:72-100  the request resolves; parse, cap, backfill
ResponsesCreateReturn ==
    /\ vPc = "requesting"
    /\ \E text \in ResponseTexts :
           LET json == ParseResponse(text)
           IN  /\ vPc' = "returned"
               /\ vResult' = [results |-> ReconcileItems(PickItems(json), vTopK),
                              hasRawText |-> FALSE, hasText |-> FALSE, raw |-> text]
    /\ UNCHANGED <<env, vQuery, vTopK, vError, retrievalRequests, vRemoteError>>
    /\ UNCHANGED <<file, minSimilarityEnv, searchVars, buildVars, managedVars, fetchVars, cleanupVars, cosineVars, restVars>>

-----------------------------------------------------------------------------
(* buildIndex, src/scripts/build-index.js:81-230, one action per await *)

batchSize == 100    \* build-index.js:129
minTextLength == 10 \* build-index.js:93

\* the vector the provider computes for a document's text
EmbedText(doc) == <<doc, 1>>

\* a vector that belongs to none of the texts sent
SpuriousVector == <<0, 1>>

\* a post: its id and the length of its combined, stripped text
Post(id, len) == [id |-> id, textLength |-> len]

\* a document for every post, whatever its text
KeepAllPosts(ps) == [k \in 1..Len(ps) |-> ps[k].id]

\* build-index.js:81-121  posts with insufficient text are skipped, the others
\* kept in order (the list is split in halves to keep the evaluation shallow)
RECURSIVE processPostsToDocuments(_)
processPostsToDocuments(ps) ==
    IF ps = << >> THEN << >>
    ELSE IF Len(ps) = 1
         THEN IF ps[1].textLength < minTextLength THEN << >> ELSE <<ps[1].id>>
         ELSE LET h == Len(ps) \div 2
              IN  processPostsToDocuments(SubSeq(ps, 1, h))
                      \o processPostsToDocuments(SubSeq(ps, h + 1, Len(ps)))

maxLength == 8000   \* build-index.js:99

Ellipsis == <<".", ".", ".">>

\* build-index.js:100  text.substring(0, maxLength) + '...' for a longer text
FinalText(t) ==
    IF Len(t) > maxLength THEN SubSeq(t, 1, maxLength) \o Ellipsis ELSE t

\* build-index.js:91-119  the loop body for a post whose combined, stripped and
\* trimmed text is combinedText: the post is skipped, or a document with finalText pushed
ProcessPost ==
    /\ tPc = "text"
    /\ IF Len(combinedText) = 0 \/ Len(combinedText) < minTextLength
       THEN tPc' = "skipped" /\ UNCHANGED finalText
       ELSE tPc' = "pushed" /\ finalText' = FinalText(combinedText)
    /\ UNCHANGED combinedText
    /\ UNCHANGED <<file, minSimilarityEnv, searchVars, vsVars, buildVars, managedVars>>
    /\ UNCHANGED <<fetchVars, cleanupVars, cosineVars, mcpVars>>

\* batches that begin with the last text of the batch before
BatchOverlapping(docs, k) == SubSeq(docs, Max(k, 1), Min(k + batchSize, Len(docs)))

\* build-index.js:132-133  the texts of the batch at offset k
Batch(docs, k) == SubSeq(docs, k + 1, Min(k + batchSize, Len(docs)))

\* response.data of the provider for a batch: one vector per text in order, or
\* a list with an item missing, or with an item too many
BatchResponses(batch) ==
    LET exact == [k \in 1..Len(batch) |-> EmbedText(batch[k])]
    IN  {exact, SubSeq(exact, 1, Len(exact) - 1), Append(exact, SpuriousVector)}

\* a count comparison that accepts every pair of lists
CountsAlwaysMatch(docs, embs) == TRUE

\* build-index.js:213  embeddings.length !== documents.length
CountsMatch(docs, embs) == Len(embs) = Len(docs)

MismatchError == "Mismatch: documents but embeddings"
RateLimitError == "429 Rate limit reached"
ServerError == "500 Internal Server Error"
WriteError == "ENOSPC: no space left on device, write"

EmbeddingErrors == {RateLimitError, ServerError}

\* build-index.js:149-158, 211-218  after a batch: the next batch is requested,
\* or the loop ends and the counts are checked before saveEmbeddings is called
AfterBatch(embs) ==
    IF batchStart + batchSize < Len(documents)
    THEN /\ batchStart' = batchStart + batchSize
         /\ embeddingBatches' = Append(embeddingBatches, Batch(documents, batchStart + batchSize))
         /\ bPc' = "embedding"
         /\ UNCHANGED bError
    ELSE /\ UNCHANGED <<batchStart, embeddingBatches>>
         /\ IF CountsMatch(documents, embs)
            THEN bPc' = "saving" /\ UNCHANGED bError
            ELSE bPc' = "failed" /\ bError' = MismatchError

\* build-index.js:198-211  posts fetched; documents made; first batch requested
ProcessPosts ==
    /\ bPc = "start"
    /\ IF Len(posts) = 0 \/ Len(processPostsToDocuments(posts)) = 0
       THEN /\ bPc' = "returned"
            /\ UNCHANGED <<documents, embeddingBatches>>
       ELSE /\ bPc' = "embedding"
            /\ documents' = processPostsToDocuments(posts)
            /\ embeddingBatches' = <<Batch(processPostsToDocuments(posts), 0)>>
    /\ UNCHANGED <<posts, embeddings, batchStart, bError, batchRejected, fileWrites, previousFile>>
    /\ UNCHANGED embeddingResponses
    /\ UNCHANGED <<file, minSimilarityEnv, searchVars, vsVars, managedVars, fetchVars, cleanupVars, cosineVars, restVars>>

\* build-index.js:138-151  the embedding request of a batch resolves
EmbeddingsCreateReturn ==
    /\ bPc = "embedding"
    /\ \E batchEmbeddings \in BatchResponses(Batch(documents, batchStart)) :
           /\ embeddings' = embeddings \o batchEmbeddings
           /\ embeddingResponses' = Append(embeddingResponses, batchEmbeddings)
           /\ AfterBatch(embeddings \o batchEmbeddings)
    /\ UNCHANGED <<posts, documents, batchRejected, fileWrites, previousFile>>
    /\ UNCHANGED <<file, minSimilarityEnv, searchVars, vsVars, managedVars, fetchVars, cleanupVars, cosineVars, restVars>>

\* the error is logged and the loop goes on with the next batch
EmbeddingsCreateFailsSwallowed ==
    /\ bPc = "embedding"
    /\ batchRejected' = TRUE
    /\ AfterBatch(embeddings)
    /\ UNCHANGED <<posts, documents, embeddings, fileWrites, previousFile, embeddingResponses>>
    /\ UNCHANGED <<file, minSimilarityEnv, searchVars, vsVars, managedVars, fetchVars, cleanupVars, cosineVars, restVars>>

\* build-index.js:152-155, 225-229  the embedding request of a batch rejects:
\* rethrown, caught by buildIndex, process.exit(1)
EmbeddingsCreateFails ==
    /\ bPc = "embedding"
    /\ \E e \in EmbeddingErrors :
           /\ bPc' = "failed"
           /\ bError' = e
    /\ batchRejected' = TRUE
    /\ UNCHANGED <<posts, documents, embeddings, batchStart, fileWrites, previousFile>>
    /\ UNCHANGED <<embeddingBatches, embeddingResponses>>
    /\ UNCHANGED <<file, minSimilarityEnv, searchVars, vsVars, managedVars, fetchVars, cleanupVars, cosineVars, restVars>>

\* build-index.js:200, 207, 220-228  the exit code of the build once it has ended
BuildExitCode == IF bPc = "failed" THEN 1 ELSE 0

\* build-index.js:165-183  saveEmbeddings: fs.writeFile opens the file, which truncates it
WriteFileOpen ==
    /\ bPc = "saving"
    /\ bPc' = "writing"
    /\ fileWrites' = fileWrites + 1
    /\ file' = Truncated
    /\ UNCHANGED <<posts, documents, embeddings, batchStart, bError, batchRejected, previousFile>>
    /\ UNCHANGED <<embeddingBatches, embeddingResponses>>
    /\ UNCHANGED <<minSimilarityEnv, searchVars, vsVars, managedVars, fetchVars, cleanupVars, cosineVars, restVars>>

\* build-index.js:183-184, 220-223  the write completes
WriteFileReturn ==
    /\ bPc = "writing"
    /\ bPc' = "done"
    /\ file' = Snapshot(documents, embeddings)
    /\ UNCHANGED <<posts, documents, embeddings, batchStart, bError, batchRejected, fileWrites, previousFile>>
    /\ UNCHANGED <<embeddingBatches, embeddingResponses>>
    /\ UNCHANGED <<minSimilarityEnv, searchVars, vsVars, managedVars, fetchVars, cleanupVars, cosineVars, restVars>>

\* build-index.js:183, 225-229  the write rejects part way
WriteFileFails ==
    /\ bPc = "writing"
    /\ bPc' = "failed"
    /\ bError' = WriteError
    /\ UNCHANGED <<posts, documents, embeddings, batchStart, batchRejected, fileWrites, previousFile>>
    /\ UNCHANGED <<embeddingBatches, embeddingResponses>>
    /\ UNCHANGED <<file, minSimilarityEnv, searchVars, vsVars, managedVars, fetchVars, cleanupVars, cosineVars, restVars>>

-----------------------------------------------------------------------------
(* The managed build, src/index.js:427-516, one action per await *)

defaultTimeoutMs == 900000  \* index.js:472  15 * 60 * 1000
pollIntervalMs == 1500      \* index.js:495

TerminalFailures == {"failed", "cancelled", "expired"}

\* a batch job as the provider reports it
Job(st, done, total) ==
    [status |-> st, file_counts |-> [completed |-> done, total |-> total]]

NoJob == Job("none", 0, 0)

\* index.js:513-514  the error main().catch reports: its message, and the
\* response data that the message carries as JSON
ManagedError(msg, data) == [message |-> msg, details |-> data]

NoManagedError == ManagedError("", NoJob)

\* index.js:492  `Batch ${status}. Details: ${JSON.stringify(data)}`
BatchError(data) == ManagedError("Batch " \o data.status \o ". Details", data)

\* index.js:494
TimeoutError == ManagedError("Timed out waiting for batch completion", NoJob)

\* the id the Files API returns for the k-th upload of the run
FileId(k) == 100 + k

\* the time a status request may take, from request to parsed response
PollDurations == {0, SlowPollIntervals * pollIntervalMs}

\* index.js:499-506  main: temporary files written, uploads begin
MainBegin ==
    /\ mPc = "start"
    /\ mPc' = IF Len(files) = 0 THEN "creating" ELSE "uploading"
    /\ UNCHANGED <<files, fileIds, batchRequests, job, polled, elapsed, timeoutMs, mError>>
    /\ UNCHANGED <<file, minSimilarityEnv, searchVars, vsVars, buildVars, fetchVars, cleanupVars, cosineVars, restVars>>

\* index.js:432-440  client.files.create resolves for the next file
UploadReturn ==
    /\ mPc = "uploading"
    /\ fileIds' = Append(fileIds, FileId(Len(fileIds) + 1))
    /\ mPc' = IF Len(fileIds) + 1 = Len(files) THEN "creating" ELSE "uploading"
    /\ UNCHANGED <<files, batchRequests, job, polled, elapsed, timeoutMs, mError>>
    /\ UNCHANGED <<file, minSimilarityEnv, searchVars, vsVars, buildVars, fetchVars, cleanupVars, cosineVars, restVars>>

\* an upload loop that logs a rejected upload and goes on with the files
\* uploaded so far
UploadFailsIsSwallowed ==
    /\ mPc = "uploading"
    /\ mPc' = "creating"
    /\ UNCHANGED <<files, fileIds, batchRequests, job, polled, elapsed, timeoutMs, mError>>
    /\ UNCHANGED <<file, minSimilarityEnv, searchVars, vsVars, buildVars, fetchVars, cleanupVars, cosineVars, restVars>>

\* index.js:441-444, 513-516  client.files.create rejects
UploadFails ==
    /\ mPc = "uploading"
    /\ mPc' = "failed"
    /\ mError' = ManagedError("Upload failed", NoJob)
    /\ UNCHANGED <<files, fileIds, batchRequests, job, polled, elapsed, timeoutMs>>
    /\ UNCHANGED <<file, minSimilarityEnv, searchVars, vsVars, buildVars, fetchVars, cleanupVars, cosineVars, restVars>>

\* index.js:450-470, 472-473  the batch-creation request resolves with the job;
\* waitForBatchCompletion takes its start time
BatchCreateReturn ==
    /\ mPc = "creating"
    /\ batchRequests' = Append(batchRequests, fileIds)
    /\ \E st \in {"queued", "in_progress"} : job' = Job(st, 0, Len(fileIds))
    /\ mPc' = "polling"
    /\ elapsed' = 0
    /\ UNCHANGED <<files, fileIds, polled, timeoutMs, mError>>
    /\ UNCHANGED <<file, minSimilarityEnv, searchVars, vsVars, buildVars, fetchVars, cleanupVars, cosineVars, restVars>>

\* index.js:463-466, 513-516  the batch-creation request is refused
BatchCreateFails ==
    /\ mPc = "creating"
    /\ batchRequests' = Append(batchRequests, fileIds)
    /\ mPc' = "failed"
    /\ mError' = ManagedError("Batch create failed", NoJob)
    /\ UNCHANGED <<files, fileIds, job, polled, elapsed, timeoutMs>>
    /\ UNCHANGED <<file, minSimilarityEnv, searchVars, vsVars, buildVars, fetchVars, cleanupVars, cosineVars, restVars>>

\* the provider works on the job: queued, in_progress, then a terminal status;
\* a completed job counts the files it could process
JobProgress ==
    /\ mPc \in {"polling", "sleeping"}
    /\ \/ /\ job.status = "queued"
          /\ \E st \in {"in_progress", "cancelled"} :
                 job' = [job EXCEPT !.status = st]
       \/ /\ job.status = "in_progress"
          /\ \/ \E st \in TerminalFailures : job' = [job EXCEPT !.status = st]
             \/ \E done \in 0..job.file_counts.total :
                    job' = Job("completed", done, job.file_counts.total)
    /\ UNCHANGED <<mPc, files, fileIds, batchRequests, polled, elapsed, timeoutMs, mError>>
    /\ UNCHANGED <<file, minSimilarityEnv, searchVars, vsVars, buildVars, fetchVars, cleanupVars, cosineVars, restVars>>

\* index.js:483-486, 513-516  a status request is answered with an HTTP error
PollFails ==
    /\ mPc = "polling"
    /\ mPc' = "failed"
    /\ mError' = ManagedError("Batch retrieve failed", NoJob)
    /\ UNCHANGED <<files, fileIds, batchRequests, job, polled, elapsed, timeoutMs>>
    /\ UNCHANGED <<file, minSimilarityEnv, searchVars, vsVars, buildVars, fetchVars, cleanupVars, cosineVars, restVars>>

\* a poll loop that takes its start time anew before every status request
PollReturnRestartsClock ==
    /\ mPc = "polling"
    /\ \E d \in PollDurations :
           /\ elapsed' = d
           /\ polled' = job
           /\ IF job.status = "completed"
              THEN mPc' = "success" /\ UNCHANGED mError
              ELSE IF job.status \in TerminalFailures
              THEN mPc' = "failed" /\ mError' = BatchError(job)
              ELSE IF d > timeoutMs
              THEN mPc' = "failed" /\ mError' = TimeoutError
              ELSE mPc' = "sleeping" /\ UNCHANGED mError
    /\ UNCHANGED <<files, fileIds, batchRequests, job, timeoutMs>>
    /\ UNCHANGED <<file, minSimilarityEnv, searchVars, vsVars, buildVars, fetchVars, cleanupVars, cosineVars, restVars>>

\* a poll that only returns on completed and sleeps on every other status
PollReturnIgnoresFailure ==
    /\ mPc = "polling"
    /\ \E d \in PollDurations :
           /\ elapsed' = elapsed + d
           /\ polled' = job
           /\ IF job.status = "completed"
              THEN mPc' = "success" /\ UNCHANGED mError
              ELSE IF elapsed + d > timeoutMs
              THEN mPc' = "failed" /\ mError' = TimeoutError
              ELSE mPc' = "sleeping" /\ UNCHANGED mError
    /\ UNCHANGED <<files, fileIds, batchRequests, job, timeoutMs>>
    /\ UNCHANGED <<file, minSimilarityEnv, searchVars, vsVars, buildVars, fetchVars, cleanupVars, cosineVars, restVars>>
\* a poll that checks the deadline before it looks at the status
PollReturnDeadlineFirst ==
    /\ mPc = "polling"
    /\ \E d \in PollDurations :
           /\ elapsed' = elapsed + d
           /\ polled' = job
           /\ IF elapsed + d > timeoutMs
              THEN mPc' = "failed" /\ mError' = TimeoutError
              ELSE IF job.status = "completed"
              THEN mPc' = "success" /\ UNCHANGED mError
              ELSE IF job.status \in TerminalFailures
              THEN mPc' = "failed" /\ mError' = BatchError(job)
              ELSE mPc' = "sleeping" /\ UNCHANGED mError
    /\ UNCHANGED <<files, fileIds, batchRequests, job, timeoutMs>>
    /\ UNCHANGED <<file, minSimilarityEnv, searchVars, vsVars, buildVars, fetchVars, cleanupVars, cosineVars, restVars>>

\* index.js:475-495, 508-510  a status request resolves: completed returns,
\* a terminal failure throws, then the deadline is checked, then the sleep begins
PollReturn ==
    /\ mPc = "polling"
    /\ \E d \in PollDurations :
           /\ elapsed' = elapsed + d
           /\ polled' = job
           /\ IF job.status = "completed"
              THEN mPc' = "success" /\ UNCHANGED mError
              ELSE IF job.status \in TerminalFailures
              THEN mPc' = "failed" /\ mError' = BatchError(job)
              ELSE IF elapsed + d > timeoutMs
              THEN mPc' = "failed" /\ mError' = TimeoutError
              ELSE mPc' = "sleeping" /\ UNCHANGED mError
    /\ UNCHANGED <<files, fileIds, batchRequests, job, timeoutMs>>
    /\ UNCHANGED <<file, minSimilarityEnv, searchVars, vsVars, buildVars, fetchVars, cleanupVars, cosineVars, restVars>>

\* index.js:510, 513-516  the exit code of the process once main has settled
ExitCode == IF mPc = "failed" THEN 1 ELSE 0

\* index.js:495  sleep(1500) resolves
SleepReturn ==
    /\ mPc = "sleeping"
    /\ mPc' = "polling"
    /\ elapsed' = elapsed + pollIntervalMs
    /\ UNCHANGED <<files, fileIds, batchRequests, job, polled, timeoutMs, mError>>
    /\ UNCHANGED <<file, minSimilarityEnv, searchVars, vsVars, buildVars, fetchVars, cleanupVars, cosineVars, restVars>>

-----------------------------------------------------------------------------
(* The content fetchers: fetchWordPressPosts, src/scripts/build-index.js:35-76, *)
(* and fetchAllPosts with writeTempFiles, src/index.js:364-425                *)

perPage == 100          \* build-index.js:39
defaultPerPage == 100   \* index.js:369

\* the page the content source serves: posts (p-1)*size+1 .. p*size of its list,
\* none when the page is out of range
PageOf(all, p, size) == SubSeq(all, (p - 1) * size + 1, Min(p * size, Len(all)))

\* index.js:369  Number(base.searchParams.get('per_page')) || 100
configuredPerPage == IF perPageConfig = 0 THEN defaultPerPage ELSE perPageConfig

\* build-index.js:63 and index.js:387  posts.length < perPage
IsShortPage(got, size) == Len(got) < size

\* build-index.js:41-67, 197  a page request of fetchWordPressPosts is answered:
\* an out-of-range page after the first (HTTP 400) or an empty page ends the
\* loop, a short page is added and ends it, a full page is added and the next
\* page is requested; the URL carries the per_page of the configuration
FetchPageReturn ==
    /\ bPc = "fetching"
    /\ pageRequests' = Append(pageRequests, page)
    /\ LET got == PageOf(source, page, perPageConfig)
       IN  /\ fetched' = fetched \o got
           /\ IF got = << >> \/ IsShortPage(got, perPage)
              THEN bPc' = "start" /\ posts' = fetched \o got /\ UNCHANGED page
              ELSE bPc' = "fetching" /\ page' = page + 1 /\ UNCHANGED posts
    /\ UNCHANGED <<source, perPageConfig, fetchFailed>>
    /\ UNCHANGED <<documents, embeddings, batchStart, bError, batchRejected, fileWrites, previousFile>>
    /\ UNCHANGED <<embeddingBatches, embeddingResponses>>
    /\ UNCHANGED <<file, minSimilarityEnv, searchVars, vsVars, managedVars, cleanupVars, cosineVars, restVars>>

\* build-index.js:46-53, 68-71, 197  a page request fails (the request rejects,
\* or HTTP 5xx, or HTTP 400 on page 1): the error is logged and the loop ends
FetchPageFails ==
    /\ bPc = "fetching"
    /\ pageRequests' = Append(pageRequests, page)
    /\ fetchFailed' = TRUE
    /\ bPc' = "start"
    /\ posts' = fetched
    /\ UNCHANGED <<source, perPageConfig, page, fetched>>
    /\ UNCHANGED <<documents, embeddings, batchStart, bError, batchRejected, fileWrites, previousFile>>
    /\ UNCHANGED <<embeddingBatches, embeddingResponses>>
    /\ UNCHANGED <<file, minSimilarityEnv, searchVars, vsVars, managedVars, cleanupVars, cosineVars, restVars>>

\* index.js:371-390  a page request of fetchAllPosts is answered
FetchAllPostsReturn ==
    /\ mPc = "fetching"
    /\ pageRequests' = Append(pageRequests, page)
    /\ LET got == PageOf(source, page, configuredPerPage)
       IN  /\ fetched' = fetched \o got
           /\ IF got = << >> \/ IsShortPage(got, configuredPerPage)
              THEN mPc' = "fetched" /\ UNCHANGED page
              ELSE mPc' = "fetching" /\ page' = page + 1
    /\ UNCHANGED <<source, perPageConfig, fetchFailed>>
    /\ UNCHANGED <<files, fileIds, batchRequests, job, polled, elapsed, timeoutMs, mError>>
    /\ UNCHANGED <<file, minSimilarityEnv, searchVars, vsVars, buildVars, cleanupVars, cosineVars, restVars>>

\* index.js:378-383, 513-516  a page request fails: fetchAllPosts throws
FetchAllPostsFails ==
    /\ mPc = "fetching"
    /\ pageRequests' = Append(pageRequests, page)
    /\ fetchFailed' = TRUE
    /\ mPc' = "failed"
    /\ mError' = ManagedError("Failed to fetch posts", NoJob)
    /\ UNCHANGED <<source, perPageConfig, page, fetched>>
    /\ UNCHANGED <<files, fileIds, batchRequests, job, polled, elapsed, timeoutMs>>
    /\ UNCHANGED <<file, minSimilarityEnv, searchVars, vsVars, buildVars, cleanupVars, cosineVars, restVars>>

\* index.js:411-425, 505  writeTempFiles: one file per post, named by its id
WriteTempFiles ==
    /\ mPc = "fetched"
    /\ files' = [k \in 1..Len(fetched) |-> [filename |-> fetched[k].id]]
    /\ mPc' = "start"
    /\ UNCHANGED <<fileIds, batchRequests, job, polled, elapsed, timeoutMs, mError>>
    /\ UNCHANGED <<file, minSimilarityEnv, searchVars, vsVars, buildVars, fetchVars, cleanupVars, cosineVars, restVars>>

-----------------------------------------------------------------------------
(* cleanup, src/scripts/cleanup-storage.js:21-323, one action per await *)

\* a file name: its stem and its extension as written
FileName(stem, ext) == [stem |-> stem, ext |-> ext]

\* the filename the Files API could not tell
Undefined == FileName(0, "")

\* the original filename of the file with the given id
NameOf(id) ==
    CASE id % 3 = 1 -> FileName(id, "txt")
      [] id % 3 = 2 -> FileName(id, "json")
      [] OTHER      -> FileName(id, "TXT")

\* String.prototype.toLowerCase on an extension
ToLowerCase(ext) == IF ext = "TXT" THEN "txt" ELSE ext

\* a filter that takes every known filename
EndsWithAnything(name) == TRUE

\* cleanup-storage.js:76, 214  name.toLowerCase().endsWith('.txt')
EndsWithTxt(name) == ToLowerCase(name.ext) = "txt"

Remove(seq, id) == SelectSeq(seq, LAMBDA x : x # id)

DeleteRequest(api, id) == [api |-> api, id |-> id]

\* cleanup-storage.js:285-289  after step 2: the local .txt files, when asked for
AfterFilesPc == IF cOpts.deleteTxt THEN "local_readdir" ELSE "done"

\* cleanup-storage.js:277-283  after step 1: the Files storage, unless --vs-txt-only
AfterVsPc == IF ~cOpts.vsTxtOnly THEN "files_list" ELSE AfterFilesPc

\* cleanup-storage.js:74  the first await of an iteration of the vector store loop
VsFilePc == IF cOpts.vsTxtOnly THEN "vs_lookup" ELSE "vs_delete"

\* cleanup-storage.js:261-275  cleanup: step 1 runs when VECTOR_STORE_ID is set
CleanupBegin ==
    /\ cPc = "start"
    /\ cPc' = IF env.vectorStoreId THEN "vs_list" ELSE AfterVsPc
    /\ UNCHANGED <<cOpts, cFilename, cFiles, cIdx, cVsDeleted, cUploadedDeleted, deleteRequests, deleteOutcomes,
                   vsStore, storage, localDir>>
    /\ UNCHANGED <<file, minSimilarityEnv, searchVars, vsVars, buildVars, managedVars, fetchVars, cosineVars, restVars>>

\* cleanup-storage.js:26-47, 71-79  the vector store's files are listed
VsListReturn ==
    /\ cPc = "vs_list"
    /\ cFiles' = vsStore
    /\ cIdx' = 1
    /\ cPc' = IF vsStore = << >> THEN AfterVsPc ELSE VsFilePc
    /\ UNCHANGED <<cOpts, cFilename, cVsDeleted, cUploadedDeleted, deleteRequests, deleteOutcomes, vsStore, storage, localDir>>
    /\ UNCHANGED <<file, minSimilarityEnv, searchVars, vsVars, buildVars, managedVars, fetchVars, cosineVars, restVars>>

\* cleanup-storage.js:36-39, 104-107  the listing fails: deleteVectorStoreFiles returns []
VsListFails ==
    /\ cPc = "vs_list"
    /\ cPc' = AfterVsPc
    /\ UNCHANGED <<cOpts, cFilename, cFiles, cIdx, cVsDeleted, cUploadedDeleted, deleteRequests, deleteOutcomes,
                   vsStore, storage, localDir>>
    /\ UNCHANGED <<file, minSimilarityEnv, searchVars, vsVars, buildVars, managedVars, fetchVars, cosineVars, restVars>>

\* cleanup-storage.js:72, 101-103  the loop goes to the next listed file or ends
NextVsFile ==
    IF cIdx < Len(cFiles)
    THEN cIdx' = cIdx + 1 /\ cPc' = VsFilePc
    ELSE cIdx' = cIdx /\ cPc' = AfterVsPc

\* cleanup-storage.js:50-68, 74-79  the filename of the listed file is looked up
\* in the Files API: its name, or undefined when the lookup fails; a file that
\* is no .txt file is skipped
VsLookupReturn ==
    /\ cPc = "vs_lookup"
    /\ \E filename \in {NameOf(cFiles[cIdx]), Undefined} :
           /\ cFilename' = filename
           /\ IF filename = Undefined \/ ~EndsWithTxt(filename)
              THEN NextVsFile
              ELSE cPc' = "vs_delete" /\ UNCHANGED cIdx
    /\ UNCHANGED <<cOpts, cFiles, cVsDeleted, cUploadedDeleted, deleteRequests, deleteOutcomes,
                   vsStore, storage, localDir>>
    /\ UNCHANGED <<file, minSimilarityEnv, searchVars, vsVars, buildVars, managedVars, fetchVars, cosineVars, restVars>>
\* A vector store delete whose failure ends the loop instead of being logged
VsDeleteReturnStopsOnFailure ==
    /\ cPc = "vs_delete"
    /\ deleteRequests' = Append(deleteRequests, DeleteRequest("vector_store", cFiles[cIdx]))
    /\ \E ok \in BOOLEAN :
           /\ deleteOutcomes' = Append(deleteOutcomes, ok)
           /\ IF ok
              THEN /\ vsStore' = Remove(vsStore, cFiles[cIdx])
                   /\ cVsDeleted' = Append(cVsDeleted, cFiles[cIdx])
                   /\ NextVsFile
              ELSE /\ UNCHANGED <<vsStore, cVsDeleted, cIdx>>
                   /\ cPc' = AfterVsPc
    /\ UNCHANGED <<cOpts, cFilename, cFiles, cUploadedDeleted, storage, localDir>>
    /\ UNCHANGED <<file, minSimilarityEnv, searchVars, vsVars, buildVars, managedVars, fetchVars, cosineVars, restVars>>

\* cleanup-storage.js:80-100  the delete request for the listed vector store
\* file is answered: done, or refused or failed (logged, the loop goes on)
VsDeleteReturn ==
    /\ cPc = "vs_delete"
    /\ deleteRequests' = Append(deleteRequests, DeleteRequest("vector_store", cFiles[cIdx]))
    /\ \E ok \in BOOLEAN :
           /\ deleteOutcomes' = Append(deleteOutcomes, ok)
           /\ IF ok
              THEN /\ vsStore' = Remove(vsStore, cFiles[cIdx])
                   /\ cVsDeleted' = Append(cVsDeleted, cFiles[cIdx])
              ELSE UNCHANGED <<vsStore, cVsDeleted>>
    /\ NextVsFile
    /\ UNCHANGED <<cOpts, cFilename, cFiles, cUploadedDeleted, storage, localDir>>
    /\ UNCHANGED <<file, minSimilarityEnv, searchVars, vsVars, buildVars, managedVars, fetchVars, cosineVars, restVars>>

\* cleanup-storage.js:118-142  the files of the Files storage are listed
FilesListReturn ==
    /\ cPc = "files_list"
    /\ cFiles' = storage
    /\ cIdx' = 1
    /\ cPc' = IF storage = << >> THEN AfterFilesPc ELSE "files_delete"
    /\ UNCHANGED <<cOpts, cFilename, cVsDeleted, cUploadedDeleted, deleteRequests, deleteOutcomes, vsStore, storage, localDir>>
    /\ UNCHANGED <<file, minSimilarityEnv, searchVars, vsVars, buildVars, managedVars, fetchVars, cosineVars, restVars>>

\* cleanup-storage.js:127-130, 166-169  the listing fails: deleteUploadedFiles returns []
FilesListFails ==
    /\ cPc = "files_list"
    /\ cPc' = AfterFilesPc
    /\ UNCHANGED <<cOpts, cFilename, cFiles, cIdx, cVsDeleted, cUploadedDeleted, deleteRequests, deleteOutcomes,
                   vsStore, storage, localDir>>
    /\ UNCHANGED <<file, minSimilarityEnv, searchVars, vsVars, buildVars, managedVars, fetchVars, cosineVars, restVars>>

\* cleanup-storage.js:142-165  the delete request for the listed storage file is
\* answered; deleting a file from the storage takes it out of the vector store
FilesDeleteReturn ==
    /\ cPc = "files_delete"
    /\ deleteRequests' = Append(deleteRequests, DeleteRequest("files", cFiles[cIdx]))
    /\ \E ok \in BOOLEAN :
           /\ deleteOutcomes' = Append(deleteOutcomes, ok)
           /\ IF ok
              THEN /\ storage' = Remove(storage, cFiles[cIdx])
                   /\ vsStore' = Remove(vsStore, cFiles[cIdx])
                   /\ cUploadedDeleted' = Append(cUploadedDeleted, cFiles[cIdx])
              ELSE UNCHANGED <<storage, vsStore, cUploadedDeleted>>
    /\ IF cIdx < Len(cFiles)
       THEN cIdx' = cIdx + 1 /\ cPc' = "files_delete"
       ELSE cIdx' = cIdx /\ cPc' = AfterFilesPc
    /\ UNCHANGED <<cOpts, cFilename, cFiles, cVsDeleted, localDir>>
    /\ UNCHANGED <<file, minSimilarityEnv, searchVars, vsVars, buildVars, managedVars, fetchVars, cosineVars, restVars>>

\* cleanup-storage.js:206-214, 225-234  the directory is read: the loop is over
\* its .txt files; a directory that cannot be read ends the step
LocalReaddirReturn ==
    /\ cPc = "local_readdir"
    /\ \E readable \in BOOLEAN :
           LET txt == IF readable THEN SelectSeq(localDir, EndsWithTxt) ELSE << >>
           IN  /\ cFiles' = txt
               /\ cPc' = IF txt = << >> THEN "done" ELSE "local_unlink"
    /\ cIdx' = 1
    /\ UNCHANGED <<cOpts, cFilename, cVsDeleted, cUploadedDeleted, deleteRequests, deleteOutcomes, vsStore, storage, localDir>>
    /\ UNCHANGED <<file, minSimilarityEnv, searchVars, vsVars, buildVars, managedVars, fetchVars, cosineVars, restVars>>

\* cleanup-storage.js:215-222  fs.unlink of a local .txt file resolves or rejects
LocalUnlinkReturn ==
    /\ cPc = "local_unlink"
    /\ deleteRequests' = Append(deleteRequests, DeleteRequest("unlink", cFiles[cIdx]))
    /\ \E ok \in BOOLEAN :
           /\ deleteOutcomes' = Append(deleteOutcomes, ok)
           /\ localDir' = IF ok THEN Remove(localDir, cFiles[cIdx]) ELSE localDir
    /\ IF cIdx < Len(cFiles)
       THEN cIdx' = cIdx + 1 /\ cPc' = "local_unlink"
       ELSE cIdx' = cIdx /\ cPc' = "done"
    /\ UNCHANGED <<cOpts, cFilename, cFiles, cVsDeleted, cUploadedDeleted, vsStore, storage>>
    /\ UNCHANGED <<file, minSimilarityEnv, searchVars, vsVars, buildVars, managedVars, fetchVars, cosineVars, restVars>>

-----------------------------------------------------------------------------
(* The handlers of the MCP server, src/index.js:17-145 *)

Tools == {"semantic_search", "vs_search"}
Resources == {"wp-search", "vs-search"}
Handlers == Tools \cup Resources

SemanticHandlers == {"semantic_search", "wp-search"}

\* index.js:17-23  safeDecode: "%20" is an encoded blank, a lone "%" makes
\* decodeURIComponent throw, and the text is then used as it is
safeDecode(value) ==
    IF \E i \in 1..Len(value) : value[i] = "%" THEN value
    ELSE [i \in 1..Len(value) |-> IF value[i] = "%20" THEN " " ELSE value[i]]

\* a text of a response: undefined, or a text of some kind with what it shows
TextValue(k, msg, rs) == [defined |-> TRUE, kind |-> k, message |-> msg, results |-> rs]
UndefinedText == [defined |-> FALSE, kind |-> "undefined", message |-> "", results |-> << >>]

\* the value a handler returns: content for a tool, contents for a resource
Content(t) == [returned |-> TRUE, text |-> t]
NoResponse == [returned |-> FALSE, text |-> UndefinedText]

\* index.js:88-90, 122-128
PromptText == TextValue("prompt", "Please provide a non-empty query.", << >>)

\* search.js:143-163  formatSearchResults: the message, or the results found
formatSearchResults(results) ==
    IF Len(results.results) = 0
    THEN TextValue("message",
                   IF results.message # "" THEN results.message ELSE "No results found", << >>)
    ELSE TextValue("results", "Found", results.results)

\* index.js:70, 94  const { text } = await vectorStoreSearch(...)
TextOfVsResult(result) ==
    IF result.hasText THEN TextValue("results", "", result.results) ELSE UndefinedText

\* index.js:48-53, 73, 97-99, 137-141  the text of a catch block
ErrorText(message) == TextValue("error", message, << >>)

\* the top_k a handler passes on: a tool's argument or its default, 10 and 5
\* for the resources
HandlerTopK ==
    IF handler \in Tools /\ topKArg.kind = "num" THEN topKArg.n
    ELSE IF handler \in SemanticHandlers THEN DefaultTopK ELSE 5

\* index.js:36-38, 68-70, 85-94, 120-133  a handler is called: a resource
\* answers a blank query itself, otherwise the search is called
HandlerBegin ==
    /\ hPc = "start"
    /\ LET q == IF handler \in Resources THEN safeDecode(queryArg) ELSE queryArg
       IN  IF handler \in Resources /\ (q = << >> \/ Len(Trim(q)) = 0)
           THEN /\ hPc' = "returned"
                /\ response' = Content(PromptText)
                /\ UNCHANGED <<searchCalls, searchVars, vsVars>>
           ELSE /\ hPc' = "searching"
                /\ searchCalls' = searchCalls + 1
                /\ UNCHANGED response
                /\ IF handler \in SemanticHandlers
                   THEN /\ sPc' = "start"
                        /\ query' = q
                        /\ topK' = HandlerTopK
                        /\ UNCHANGED <<loaded, sResult, sError, snapshotReads, embeddingRequests,
                                       readContent, vsVars>>
                   ELSE /\ vPc' = "start"
                        /\ vQuery' = q
                        /\ vTopK' = HandlerTopK
                        /\ UNCHANGED <<env, vResult, vError, retrievalRequests, vRemoteError,
                                       searchVars>>
    /\ UNCHANGED <<handler, queryArg, topKArg>>
    /\ UNCHANGED <<file, minSimilarityEnv, buildVars, managedVars, fetchVars, cleanupVars>>
    /\ UNCHANGED <<cosineVars, textVars>>

\* a handler without its try and catch
HandlerReturnRethrows ==
    /\ hPc = "searching"
    /\ IF handler \in SemanticHandlers
       THEN /\ sPc \in {"returned", "thrown"}
            /\ IF sPc = "returned"
               THEN hPc' = "returned" /\ response' = Content(formatSearchResults(sResult))
               ELSE hPc' = "thrown" /\ UNCHANGED response
       ELSE /\ vPc \in {"returned", "thrown"}
            /\ IF vPc = "returned"
               THEN hPc' = "returned" /\ response' = Content(TextOfVsResult(vResult))
               ELSE hPc' = "thrown" /\ UNCHANGED response
    /\ UNCHANGED <<handler, queryArg, topKArg, searchCalls>>
    /\ UNCHANGED <<file, minSimilarityEnv, searchVars, vsVars, buildVars, managedVars>>
    /\ UNCHANGED <<fetchVars, cleanupVars, cosineVars, textVars>>

\* index.js:38-54, 69-74, 93-100, 131-142  the search has settled: its result
\* is made the text of the response, or the catch block makes the error one
HandlerReturn ==
    /\ hPc = "searching"
    /\ IF handler \in SemanticHandlers
       THEN /\ sPc \in {"returned", "thrown"}
            /\ response' = Content(IF sPc = "returned" THEN formatSearchResults(sResult)
                                   ELSE ErrorText(sError))
       ELSE /\ vPc \in {"returned", "thrown"}
            /\ response' = Content(IF vPc = "returned" THEN TextOfVsResult(vResult)
                                   ELSE ErrorText(vError))
    /\ hPc' = "returned"
    /\ UNCHANGED <<handler, queryArg, topKArg, searchCalls>>
    /\ UNCHANGED <<file, minSimilarityEnv, searchVars, vsVars, buildVars, managedVars>>
    /\ UNCHANGED <<fetchVars, cleanupVars, cosineVars, textVars>>

-----------------------------------------------------------------------------
(* Inputs and specifications *)

Queries == { << >>, <<" ", "\t">>, <<" ", "h", "i", " ">> }

TopKTokens ==
    {[kind |-> "none", n |-> 0], [kind |-> "text", n |-> 0]}
        \cup {[kind |-> "num", n |-> k] : k \in -1..2}

MinSimilarityEnvs == {"unset", "0", "0.5", "-1"}

DocIds(n) == [i \in 1..n |-> i]

VectorSeqs(n) == [1..n -> Vectors]

SnapshotFiles ==
    UNION { {Snapshot(DocIds(n), e) : e \in VectorSeqs(n)} : n \in 0..MaxSnapshotDocs }

\* JSON objects that are no snapshot: {}, no embeddings field, too few embeddings
BrokenObjectFiles ==
    {FileOf("object", FALSE, NoDocs, FALSE, NoDocs)}
        \cup {FileOf("object", TRUE, DocIds(n), FALSE, NoDocs) : n \in 1..MaxSnapshotDocs}
        \cup UNION { {Snapshot(DocIds(n), e) : e \in VectorSeqs(n - 1)} : n \in 1..MaxSnapshotDocs }

SearchFiles ==
    {Missing, Unreadable, Garbage, Truncated, JsonNull, JsonScalar}
        \cup SnapshotFiles \cup BrokenObjectFiles

\* no MCP handler is called
McpIdle ==
    /\ hPc = "idle"
    /\ handler = "none"
    /\ queryArg = << >>
    /\ topKArg = [kind |-> "none", n |-> 0]
    /\ response = NoResponse
    /\ searchCalls = 0

\* the loop body of processPostsToDocuments is not followed on its own
TextIdle ==
    /\ tPc = "idle"
    /\ combinedText = << >>
    /\ finalText = << >>

RestIdle == TextIdle /\ McpIdle

\* cosineSimilarity is not called on its own
CosineIdle ==
    /\ cosPc = "idle"
    /\ vecA = << >>
    /\ vecB = << >>
    /\ similarity = ZeroScore

\* buildIndex is not running
BuildIdle ==
    /\ bPc = "idle"
    /\ posts = << >>
    /\ documents = << >>
    /\ embeddings = << >>
    /\ batchStart = 0
    /\ bError = ""
    /\ batchRejected = FALSE
    /\ fileWrites = 0
    /\ previousFile = Missing
    /\ embeddingBatches = << >>
    /\ embeddingResponses = << >>

\* the managed build is not running
ManagedIdle ==
    /\ mPc = "idle"
    /\ files = << >>
    /\ fileIds = << >>
    /\ batchRequests = << >>
    /\ job = NoJob
    /\ polled = NoJob
    /\ elapsed = 0
    /\ timeoutMs = defaultTimeoutMs
    /\ mError = NoManagedError

\* cleanup is not running
CleanupIdle ==
    /\ cPc = "idle"
    /\ cOpts = [vsTxtOnly |-> FALSE, deleteTxt |-> FALSE]
    /\ cFiles = << >>
    /\ cIdx = 1
    /\ cFilename = Undefined
    /\ cVsDeleted = << >>
    /\ cUploadedDeleted = << >>
    /\ deleteRequests = << >>
    /\ deleteOutcomes = << >>
    /\ vsStore = << >>
    /\ storage = << >>
    /\ localDir = << >>

\* no content fetcher is running
FetchIdle ==
    /\ source = << >>
    /\ perPageConfig = 0
    /\ page = 1
    /\ pageRequests = << >>
    /\ fetched = << >>
    /\ fetchFailed = FALSE

\* vectorStoreSearch is not running
VsIdle ==
    /\ env = [apiKey |-> TRUE, vectorStoreId |-> TRUE, assistantId |-> FALSE]
    /\ vPc = "idle"
    /\ vQuery = << >>
    /\ vTopK = 5
    /\ vResult = NoVsResult
    /\ vError = ""
    /\ retrievalRequests = << >>
    /\ vRemoteError = ""

\* semanticSearch is not running
SearchIdle ==
    /\ file = Missing
    /\ minSimilarityEnv = "unset"
    /\ sPc = "idle"
    /\ query = << >>
    /\ topK = DefaultTopK
    /\ loaded = EmptyIndex
    /\ sResult = NoResult
    /\ sError = ""
    /\ snapshotReads = 0
    /\ embeddingRequests = 0
    /\ readContent = Missing

InitSearch ==
    /\ RestIdle
    /\ CosineIdle
    /\ CleanupIdle
    /\ FetchIdle
    /\ VsIdle
    /\ BuildIdle
    /\ ManagedIdle
    /\ file \in SearchFiles
    /\ minSimilarityEnv \in MinSimilarityEnvs
    /\ sPc = "start"
    /\ query \in Queries
    /\ topK \in {ParseArgsTopK(t) : t \in TopKTokens}
    /\ loaded = EmptyIndex
    /\ sResult = NoResult
    /\ sError = ""
    /\ snapshotReads = 0
    /\ embeddingRequests = 0
    /\ readContent = Missing

NextSearch ==
    \/ SemanticSearchBegin
    \/ LoadEmbeddingsReturn
    \/ GenerateQueryEmbeddingReturn

SpecSearch == InitSearch /\ [][NextSearch]_vars

InitVs ==
    /\ RestIdle
    /\ CosineIdle
    /\ CleanupIdle
    /\ FetchIdle
    /\ SearchIdle
    /\ BuildIdle
    /\ ManagedIdle
    /\ env \in [apiKey : BOOLEAN, vectorStoreId : BOOLEAN, assistantId : BOOLEAN]
    /\ vPc = "start"
    /\ vQuery \in Queries
    /\ vTopK \in {IF t.kind = "num" THEN t.n ELSE 5 : t \in TopKTokens}
    /\ vResult = NoVsResult
    /\ vError = ""
    /\ retrievalRequests = << >>
    /\ vRemoteError = ""

NextVs ==
    \/ VectorStoreSearchBegin
    \/ ResponsesCreateFails
    \/ ResponsesCreateReturn

SpecVs == InitVs /\ [][NextVs]_vars

\* where a run's posts hold a post without enough text
ShortPlaces == {"none", "first", "inside"}

\* the posts of a run: n posts with enough text (the first with just enough),
\* and one without: an empty one in front, or a short one behind the first
PostsOf(n, short) ==
    LET long == [k \in 1..n |-> Post(k, IF k = 1 THEN minTextLength ELSE 2 * minTextLength)]
    IN  IF short = "first" THEN <<Post(0, 0)>> \o long
        ELSE IF short = "inside" /\ n > 0
        THEN <<long[1], Post(0, minTextLength - 1)>> \o SubSeq(long, 2, n)
        ELSE long

PostCounts == {b * batchSize + e : b \in 0..MaxBatches, e \in 0..MaxExtra}

PreviousFiles == {Missing, Snapshot(<<7>>, <<EmbedText(7)>>)}

BuildStart(counts) ==
    /\ bPc = "start"
    /\ \E n \in counts, short \in ShortPlaces : posts = PostsOf(n, short)
    /\ documents = << >>
    /\ embeddings = << >>
    /\ batchStart = 0
    /\ bError = ""
    /\ batchRejected = FALSE
    /\ fileWrites = 0
    /\ previousFile \in PreviousFiles
    /\ embeddingBatches = << >>
    /\ embeddingResponses = << >>
    /\ file = previousFile

InitBuild ==
    /\ RestIdle
    /\ CosineIdle
    /\ CleanupIdle
    /\ FetchIdle
    /\ VsIdle
    /\ ManagedIdle
    /\ minSimilarityEnv = "unset"
    /\ sPc = "idle"
    /\ query = << >>
    /\ topK = DefaultTopK
    /\ loaded = EmptyIndex
    /\ sResult = NoResult
    /\ sError = ""
    /\ snapshotReads = 0
    /\ embeddingRequests = 0
    /\ readContent = Missing
    /\ BuildStart(PostCounts)

NextBuild ==
    \/ ProcessPosts
    \/ EmbeddingsCreateReturn
    \/ EmbeddingsCreateFails
    \/ WriteFileOpen
    \/ WriteFileReturn
    \/ WriteFileFails

SpecBuild == InitBuild /\ [][NextBuild]_vars

\* a number whose square is infinite
Huge == MaxValue \div 2

\* posts with enough text; the provider computes a vector with a huge
\* component for the text of one of them
LargeVectorPosts ==
    UNION { {[k \in 1..n |-> Post(ids[k], 2 * minTextLength)] : ids \in [1..n -> {1, 2, Huge}]}
            : n \in 0..MaxReadDocs }

\* a build and a search, over posts of which one has a huge vector
InitRoundTrip ==
    /\ RestIdle
    /\ CosineIdle
    /\ CleanupIdle
    /\ FetchIdle
    /\ VsIdle
    /\ ManagedIdle
    /\ minSimilarityEnv = "unset"
    /\ sPc = "start"
    /\ query = <<"h", "i">>
    /\ topK = DefaultTopK
    /\ loaded = EmptyIndex
    /\ sResult = NoResult
    /\ sError = ""
    /\ snapshotReads = 0
    /\ embeddingRequests = 0
    /\ readContent = Missing
    /\ bPc = "start"
    /\ posts \in LargeVectorPosts
    /\ documents = << >>
    /\ embeddings = << >>
    /\ batchStart = 0
    /\ bError = ""
    /\ batchRejected = FALSE
    /\ fileWrites = 0
    /\ previousFile \in PreviousFiles
    /\ embeddingBatches = << >>
    /\ embeddingResponses = << >>
    /\ file = previousFile

\* a search running while the index is built
InitBuildRead ==
    /\ RestIdle
    /\ CosineIdle
    /\ CleanupIdle
    /\ FetchIdle
    /\ VsIdle
    /\ ManagedIdle
    /\ minSimilarityEnv = "unset"
    /\ sPc = "start"
    /\ query = <<"h", "i">>
    /\ topK = DefaultTopK
    /\ loaded = EmptyIndex
    /\ sResult = NoResult
    /\ sError = ""
    /\ snapshotReads = 0
    /\ embeddingRequests = 0
    /\ readContent = Missing
    /\ BuildStart(0..MaxReadDocs)

NextBuildRead == NextBuild \/ NextSearch

SpecBuildRead == InitBuildRead /\ [][NextBuildRead]_vars

SpecRoundTrip == InitRoundTrip /\ [][NextBuildRead]_vars

\* the temporary file of the k-th post
TempFile(k) == [filename |-> k]

InitManaged ==
    /\ RestIdle
    /\ CosineIdle
    /\ CleanupIdle
    /\ FetchIdle
    /\ SearchIdle
    /\ VsIdle
    /\ BuildIdle
    /\ mPc = "start"
    /\ \E n \in 0..MaxFiles : files = [k \in 1..n |-> TempFile(k)]
    /\ fileIds = << >>
    /\ batchRequests = << >>
    /\ job = NoJob
    /\ polled = NoJob
    /\ elapsed = 0
    /\ timeoutMs = defaultTimeoutMs
    /\ mError = NoManagedError

NextManaged ==
    \/ MainBegin
    \/ UploadReturn
    \/ UploadFails
    \/ BatchCreateReturn
    \/ BatchCreateFails
    \/ JobProgress
    \/ PollFails
    \/ PollReturn
    \/ SleepReturn

SpecManaged == InitManaged /\ [][NextManaged]_vars

\* the timeouts waitForBatchCompletion may be called with: already over at
\* the first check, over as soon as time has passed, and the default
Timeouts == {0 - pollIntervalMs, 0, defaultTimeoutMs}

\* the managed build with waitForBatchCompletion given any of the timeouts
InitManagedTimeouts ==
    /\ RestIdle
    /\ CosineIdle
    /\ CleanupIdle
    /\ FetchIdle
    /\ SearchIdle
    /\ VsIdle
    /\ BuildIdle
    /\ mPc = "start"
    /\ \E n \in 0..MaxFiles : files = [k \in 1..n |-> TempFile(k)]
    /\ fileIds = << >>
    /\ batchRequests = << >>
    /\ job = NoJob
    /\ polled = NoJob
    /\ elapsed = 0
    /\ timeoutMs \in Timeouts
    /\ mError = NoManagedError

SpecManagedTimeouts == InitManagedTimeouts /\ [][NextManaged]_vars

\* every status request returns and every sleep ends (the clock advances)
SpecManagedLive ==
    /\ InitManaged
    /\ [][NextManaged]_vars
    /\ WF_vars(PollReturn)
    /\ WF_vars(SleepReturn)

\* per_page of the configured URL in a local build
PerPageConfigs == {perPage \div 2, perPage}

\* the local build from its first page request on
InitFetchBuild ==
    /\ RestIdle
    /\ CosineIdle
    /\ CleanupIdle
    /\ VsIdle
    /\ ManagedIdle
    /\ SearchIdle
    /\ bPc = "fetching"
    /\ \E n \in PostCounts, short \in ShortPlaces : source = PostsOf(n, short)
    /\ perPageConfig \in PerPageConfigs
    /\ page = 1
    /\ pageRequests = << >>
    /\ fetched = << >>
    /\ fetchFailed = FALSE
    /\ posts = << >>
    /\ documents = << >>
    /\ embeddings = << >>
    /\ batchStart = 0
    /\ bError = ""
    /\ batchRejected = FALSE
    /\ fileWrites = 0
    /\ previousFile = Missing
    /\ embeddingBatches = << >>
    /\ embeddingResponses = << >>
    /\ file = previousFile

NextFetchBuild ==
    \/ FetchPageReturn
    \/ FetchPageFails
    \/ NextBuild

SpecFetchBuild == InitFetchBuild /\ [][NextFetchBuild]_vars

\* the managed build from its first page request until the files are written
InitManagedFetch ==
    /\ RestIdle
    /\ CosineIdle
    /\ CleanupIdle
    /\ SearchIdle
    /\ VsIdle
    /\ BuildIdle
    /\ mPc = "fetching"
    /\ \E n \in 0..MaxSourcePosts : source = PostsOf(n, "none")
    /\ perPageConfig \in 0..MaxPerPage
    /\ page = 1
    /\ pageRequests = << >>
    /\ fetched = << >>
    /\ fetchFailed = FALSE
    /\ files = << >>
    /\ fileIds = << >>
    /\ batchRequests = << >>
    /\ job = NoJob
    /\ polled = NoJob
    /\ elapsed = 0
    /\ timeoutMs = defaultTimeoutMs
    /\ mError = NoManagedError

NextManagedFetch ==
    \/ FetchAllPostsReturn
    \/ FetchAllPostsFails
    \/ WriteTempFiles

SpecManagedFetch == InitManagedFetch /\ [][NextManagedFetch]_vars

\* the local directory: empty, or the file of a post and a text file
LocalDirs == {<< >>, <<FileName(1, "json"), FileName(2, "txt")>>}

InitCleanup ==
    /\ RestIdle
    /\ CosineIdle
    /\ FetchIdle
    /\ SearchIdle
    /\ BuildIdle
    /\ ManagedIdle
    /\ env \in [apiKey : {TRUE}, vectorStoreId : BOOLEAN, assistantId : {FALSE}]
    /\ vPc = "idle"
    /\ vQuery = << >>
    /\ vTopK = 5
    /\ vResult = NoVsResult
    /\ vError = ""
    /\ retrievalRequests = << >>
    /\ vRemoteError = ""
    /\ cPc = "start"
    /\ cOpts \in [vsTxtOnly : BOOLEAN, deleteTxt : BOOLEAN]
    /\ cFiles = << >>
    /\ cIdx = 1
    /\ cFilename = Undefined
    /\ cVsDeleted = << >>
    /\ cUploadedDeleted = << >>
    /\ deleteRequests = << >>
    /\ deleteOutcomes = << >>
    /\ \E n \in 0..MaxStoreFiles : vsStore = [k \in 1..n |-> k]
    /\ \E n \in 0..MaxStoreFiles : storage = [k \in 1..n |-> k]
    /\ localDir \in LocalDirs

NextCleanup ==
    \/ CleanupBegin
    \/ VsListReturn
    \/ VsListFails
    \/ VsLookupReturn
    \/ VsDeleteReturn
    \/ FilesListReturn
    \/ FilesListFails
    \/ FilesDeleteReturn
    \/ LocalReaddirReturn
    \/ LocalUnlinkReturn

SpecCleanup == InitCleanup /\ [][NextCleanup]_vars


\* the numbers a vector may hold: what JSON.parse reads and the provider returns
Components == {-1, 0, 1, 2, Huge}

MaxDimensions == 2

VectorsOfLength(n) == [1..n -> Components]

AnyVectors == UNION {VectorsOfLength(n) : n \in 0..MaxDimensions}

MaxOver == 30       \* characters of a text beyond, or short of, the limits

\* the lengths of a combined text: about minTextLength and about maxLength
TextLengths ==
    (0..(minTextLength + 1)) \cup ((maxLength - MaxOver)..(maxLength + MaxOver))

\* a text of n characters: c and d in turn
CombinedText(n, c, d) == [i \in 1..n |-> IF i % 2 = 1 THEN c ELSE d]

Texts == {CombinedText(n, "a", d) : n \in TextLengths, d \in {"b", "."}}

\* single posts going through the loop body of processPostsToDocuments
InitText ==
    /\ CosineIdle
    /\ CleanupIdle
    /\ FetchIdle
    /\ SearchIdle
    /\ VsIdle
    /\ BuildIdle
    /\ ManagedIdle
    /\ file = Missing
    /\ minSimilarityEnv = "unset"
    /\ McpIdle
    /\ tPc = "text"
    /\ combinedText \in Texts
    /\ finalText = << >>

NextText == ProcessPost

SpecText == InitText /\ [][NextText]_vars

\* the query of a handler: none, blanks, an encoded blank, a word, words
\* around an encoded blank, and a text that cannot be decoded
HandlerQueries ==
    { << >>, <<" ", "\t">>, <<"%20">>, <<"h", "i">>, <<"h", "%20", "i">>, <<"%">> }

McpFiles == {Missing, JsonNull, Snapshot(DocIds(2), <<(<<1, 0>>), (<<1, 1>>)>>)}

\* one call of a handler of the MCP server
InitMcp ==
    /\ TextIdle
    /\ CosineIdle
    /\ CleanupIdle
    /\ FetchIdle
    /\ BuildIdle
    /\ ManagedIdle
    /\ file \in McpFiles
    /\ minSimilarityEnv = "unset"
    /\ sPc = "idle"
    /\ query = << >>
    /\ topK = DefaultTopK
    /\ loaded = EmptyIndex
    /\ sResult = NoResult
    /\ sError = ""
    /\ snapshotReads = 0
    /\ embeddingRequests = 0
    /\ readContent = Missing
    /\ env \in [apiKey : BOOLEAN, vectorStoreId : BOOLEAN, assistantId : {FALSE}]
    /\ vPc = "idle"
    /\ vQuery = << >>
    /\ vTopK = 5
    /\ vResult = NoVsResult
    /\ vError = ""
    /\ retrievalRequests = << >>
    /\ vRemoteError = ""
    /\ hPc = "start"
    /\ handler \in Handlers
    /\ queryArg \in HandlerQueries
    /\ topKArg \in {[kind |-> "none", n |-> 0], [kind |-> "num", n |-> 1]}
    /\ response = NoResponse
    /\ searchCalls = 0

NextMcp ==
    \/ HandlerBegin
    \/ HandlerReturn
    \/ NextSearch
    \/ NextVs

SpecMcp == InitMcp /\ [][NextMcp]_vars

\* single calls of cosineSimilarity
InitCosine ==
    /\ RestIdle
    /\ CleanupIdle
    /\ FetchIdle
    /\ SearchIdle
    /\ VsIdle
    /\ BuildIdle
    /\ ManagedIdle
    /\ file = Missing
    /\ minSimilarityEnv = "unset"
    /\ cosPc = "called"
    /\ vecA \in AnyVectors
    /\ vecB \in AnyVectors
    /\ similarity = ZeroScore

NextCosine == CosineSimilarityReturn

SpecCosine == InitCosine /\ [][NextCosine]_vars

-----------------------------------------------------------------------------
(* Claims about the queries: C1-C3 under SpecSearch, C4 under SpecVs *)

SearchReturned == sPc = "returned"

\* C1: semanticSearch returns at most topK results (none for a topK below 1),
\* and every returned result has score >= MIN_SIMILARITY.
C1_AtMostTopKAboveThreshold ==
    SearchReturned =>
        /\ Len(sResult.results) <= Max(topK, 0)
        /\ \A i \in 1..Len(sResult.results) :
               ScoreAtLeast(sResult.results[i].score, MIN_SIMILARITY)

\* C2: the results are in non-increasing score order, and two results with
\* equal score keep the relative order their documents have in the snapshot.
C2_SortedDescendingStable ==
    SearchReturned =>
        \A i, j \in 1..Len(sResult.results) :
            i < j =>
                /\ ~ScoreLess(sResult.results[i].score, sResult.results[j].score)
                /\ ScoreEq(sResult.results[i].score, sResult.results[j].score)
                       => sResult.results[i].doc < sResult.results[j].doc

\* a search returned three results, two of them tied, and not in snapshot order
C2_Witness ==
    /\ SearchReturned
    /\ Len(sResult.results) = 3
    /\ \E i, j \in 1..3 :
           i < j /\ ScoreEq(sResult.results[i].score, sResult.results[j].score)
    /\ \E i, j \in 1..3 : i < j /\ sResult.results[i].doc > sResult.results[j].doc

\* the file is missing, unreadable, corrupt, no snapshot object, or holds no documents
CorruptOrEmpty(f) ==
    \/ f.kind # "object"
    \/ ~f.hasDocuments
    \/ Len(f.documents) = 0
    \/ ~f.hasEmbeddings

\* C3: with such a file and a valid query, semanticSearch throws nothing and
\* returns total_results 0, no results and a non-empty guidance message.
C3_CorruptSnapshotGivesEmptyResult ==
    (CorruptOrEmpty(file) /\ ~InvalidQuery(query)) =>
        /\ sPc # "thrown"
        /\ SearchReturned =>
               /\ sResult.total_results = 0
               /\ sResult.results = << >>
               /\ sResult.message # ""

\* C4: for an empty or whitespace query, semanticSearch and vectorStoreSearch
\* fail with an invalid-query error, and no snapshot read, embedding request
\* or remote retrieval request is made.
InvalidQueryErrors ==
    {"Semantic search failed: Query must be a non-empty string", "Query must be non-empty"}

C4_InvalidQueryFailsBeforePipeline ==
    /\ (sPc # "idle" /\ InvalidQuery(query)) =>
           /\ snapshotReads = 0 /\ embeddingRequests = 0
           /\ sPc \in {"start", "thrown"}
           /\ sPc = "thrown" => sError \in InvalidQueryErrors
    /\ (vPc # "idle" /\ InvalidQuery(vQuery)) =>
           /\ retrievalRequests = << >>
           /\ vPc \in {"start", "thrown"}
           /\ vPc = "thrown" => vError \in InvalidQueryErrors

-----------------------------------------------------------------------------
(* Claims about the local index build: C5-C8 under SpecBuild, C9 under SpecBuildRead *)

\* embedding generation ran to its end (no request was rejected)
GenerationEnded ==
    bPc \in {"saving", "writing", "done", "failed"} /\ bError \notin EmbeddingErrors

\* C5: every snapshot written by the build has as many embeddings as documents,
\* and total_documents equal to both; when the counts differ after embedding
\* generation the build raises the mismatch error and writes nothing.
C5_PersistedCountsEqual ==
    /\ (fileWrites > 0 /\ file.kind = "object") =>
           /\ Len(file.documents) = Len(file.embeddings)
           /\ file.total_documents = Len(file.documents)
    /\ (GenerationEnded /\ Len(embeddings) # Len(documents)) =>
           /\ bPc = "failed"
           /\ bError = MismatchError
           /\ fileWrites = 0

\* a snapshot of more than one batch was written
C5_Witness ==
    bPc = "done" /\ file.kind = "object" /\ Len(file.documents) > batchSize

Aligned(docs, embs) ==
    /\ Len(embs) = Len(docs)
    /\ \A k \in 1..Len(docs) : embs[k] = EmbedText(docs[k])

\* C6: a response whose item count differs from the batch's text count aborts
\* the build: the build never goes on to save embeddings that are not one per
\* document in order, and no persisted snapshot has embedding i belonging to a
\* document other than document i.
C6_MiscountNeverPersisted ==
    /\ bPc \in {"saving", "writing", "done"} => Aligned(documents, embeddings)
    /\ (fileWrites > 0 /\ file.kind = "object") => Aligned(file.documents, file.embeddings)

\* C7: a batch whose request failed for rate limiting is retried; the failure
\* does not end the build.
C7_RateLimitedBatchIsRetried ==
    ~(bPc = "failed" /\ bError = RateLimitError)

\* C8: when embedding generation fails for a batch, or the final count check
\* fails, the build ends without any write and the snapshot file is as it was.
C8_FailedBuildLeavesSnapshot ==
    /\ (bPc = "failed" /\ bError \in EmbeddingErrors \cup {MismatchError}) =>
           fileWrites = 0 /\ file = previousFile
    /\ batchRejected =>
           fileWrites = 0 /\ file = previousFile /\ bPc = "failed"

\* the count check failed after two batches, with a snapshot of an earlier run on disk
C8_Witness ==
    /\ bPc = "failed"
    /\ bError = MismatchError
    /\ Len(documents) > batchSize
    /\ previousFile.kind = "object"
    /\ file = previousFile

\* C9: a search that reads the snapshot file while the build writes it reads
\* the complete previous snapshot or the complete new one.
C9_ReadSeesCompleteSnapshot ==
    (bPc # "idle" /\ snapshotReads > 0 /\ sPc \notin {"start", "reading"}) =>
        readContent \in {previousFile, Snapshot(documents, embeddings)}

-----------------------------------------------------------------------------
(* Claims about the managed build, checked under SpecManaged *)

\* C10: when a poll finds the job completed within the timeout the build
\* reports success, and it reports success only when the job's file counts
\* match the number of files submitted in the batch.
C10_SuccessMeansAllFilesCompleted ==
    /\ (polled.status = "completed" /\ elapsed <= timeoutMs) => mPc = "success"
    /\ mPc = "success" =>
           /\ polled.status = "completed"
           /\ polled.file_counts.total = Len(fileIds)
           /\ polled.file_counts.completed = Len(fileIds)

\* C11: as soon as a poll observes the job failed, cancelled or expired the
\* build has aborted with the error that carries the job's data as observed,
\* it has not reported success, the process has exited with code 1, and no
\* further step (no further poll) is taken.
C11_TerminalFailureAborts ==
    /\ [](polled.status \in TerminalFailures =>
              /\ mPc = "failed"
              /\ mError = BatchError(polled)
              /\ mError.details = job
              /\ ExitCode = 1)
    /\ [][polled.status \notin TerminalFailures]_vars

\* a poll after at least one sleep observed an expired job
C11_Witness ==
    mPc = "failed" /\ polled.status = "expired" /\ elapsed >= pollIntervalMs

PollLoopEnded == mPc \in {"success", "failed"}

\* C12: when every status request returns and the clock advances the poll loop
\* ends; it has ended once a poll observed a terminal status; while the job is
\* not terminal it goes on only as long as the elapsed time seen by the last
\* poll is within the timeout, and then ends with the timeout error, which
\* differs from the error of every failed, cancelled or expired job.
C12_PollLoopTerminates ==
    /\ (mPc = "polling") ~> PollLoopEnded
    /\ [](polled.status \in TerminalFailures \cup {"completed"} => PollLoopEnded)
    /\ [](mPc = "sleeping" => elapsed <= timeoutMs)
    /\ [](mPc = "polling" => elapsed <= timeoutMs + pollIntervalMs)
    /\ []((mPc = "failed" /\ elapsed > timeoutMs /\ polled.status \in {"queued", "in_progress"}
              /\ mError.message # "Batch retrieve failed") => mError = TimeoutError)
    /\ [](mError = TimeoutError =>
              /\ elapsed > timeoutMs
              /\ polled.status \notin TerminalFailures
              /\ \A st \in TerminalFailures : mError.message # BatchError(Job(st, 0, 0)).message)

\* the job stayed in progress through polls of ordinary speed until the timeout
C12_Witness ==
    /\ mPc = "failed" /\ mError = TimeoutError /\ polled.status = "in_progress"
    /\ elapsed = timeoutMs + pollIntervalMs

-----------------------------------------------------------------------------
(* Claims about vectorStoreSearch, checked under SpecVs *)

VsReturned == vPc = "returned"

\* C13: when the response text is not valid JSON (the empty string included)
\* vectorStoreSearch raises nothing, and its result is the empty results list
\* together with the raw response text under raw_text.
C13_UnparsableTextKeepsRawText ==
    /\ (vPc = "thrown" /\ Len(retrievalRequests) > 0) => vError \in RemoteErrors \cup {BindingHint}
    /\ (VsReturned /\ vResult.raw.kind \in {"empty", "not_json"}) =>
           /\ vResult.results = << >>
           /\ vResult.hasRawText

\* the response text, when it is a JSON object
ParsedObject == VsReturned /\ vResult.raw.kind = "object"

\* the list the two fields of the response stand for: the first of results and
\* items that is present and not empty
PresentNonEmpty(text) ==
    IF text.hasResults /\ text.results # << >> THEN text.results
    ELSE IF text.hasItems /\ text.items # << >> THEN text.items
    ELSE << >>

Ids(list) == [p \in 1..Len(list) |-> list[p].id]

\* C14: the items are taken from whichever of results and items is present and
\* not empty, results first; an empty results list beside a non-empty items
\* list yields the items.
C14_NonEmptyFieldWins ==
    ParsedObject => vResult.results = ReconcileItems(PresentNonEmpty(vResult.raw), vTopK)

\* the parsed list, and the part of it the results were made from
ParsedItems == PickItems(ParseResponse(vResult.raw))

CappedItems == Slice0(ParsedItems, vTopK)

Abs(x) == IF x < 0 THEN -x ELSE x

\* s is 1 - i/(n-1) rounded to the nearest millionth
IsLinearDecay(s, i, n) == 2 * Abs(s * (n - 1) - 1000000 * (n - 1 - i)) <= n - 1

\* C15: an item without a finite numeric score gets 1 when the capped list has
\* one item and else 1 - i/(n-1) rounded to 6 decimals (i its 0-based position,
\* n the capped length; three unscored items get 1.0, 0.5, 0.0); an item with a
\* finite numeric score keeps it.
C15_ScoreBackfill ==
    VsReturned =>
        LET n == Len(CappedItems)
        IN  /\ Len(vResult.results) = n
            /\ \A p \in 1..n :
                   IF CappedItems[p].hasScore
                   THEN vResult.results[p].score = CappedItems[p].score
                   ELSE IF n = 1 THEN vResult.results[p].score = 1000000
                   ELSE IsLinearDecay(vResult.results[p].score, p - 1, n)
            /\ (n = 3 /\ \A p \in 1..n : ~CappedItems[p].hasScore) =>
                   [p \in 1..n |-> vResult.results[p].score] = <<1000000, 500000, 0>>

\* four listed items, the second and third without a score
C15_Witness ==
    /\ VsReturned /\ Len(vResult.results) = 4
    /\ CappedItems[1].hasScore /\ vResult.results[1].score = 900000
    /\ ~CappedItems[2].hasScore /\ vResult.results[2].score = 666667
    /\ ~CappedItems[3].hasScore /\ vResult.results[3].score = 333333

\* C16: for every numeric topK the results hold at most topK items and are a
\* prefix of the parsed list in its order; the scores are computed for the
\* capped length, and duplicates are neither dropped nor merged.
C16_AtMostTopKPrefix ==
    VsReturned =>
        /\ Len(vResult.results) <= vTopK
        /\ Len(vResult.results) <= Len(ParsedItems)
        /\ Ids(vResult.results) = SubSeq(Ids(ParsedItems), 1, Len(vResult.results))
        /\ Len(vResult.results) = Min(Max(vTopK, 0), Len(ParsedItems))

\* C17: an item without a numeric original_rank gets its 1-based position in
\* the capped list; an item with a numeric original_rank keeps it.
C17_OriginalRankBackfill ==
    VsReturned =>
        /\ Len(vResult.results) = Len(CappedItems)
        /\ \A p \in 1..Len(CappedItems) :
               vResult.results[p].original_rank =
                   IF CappedItems[p].hasRank THEN CappedItems[p].original_rank ELSE p

\* of three parsed items two were kept: the first came with a rank, the second without
C17_Witness ==
    /\ VsReturned /\ Len(ParsedItems) = 3 /\ Len(vResult.results) = 2
    /\ CappedItems[1].hasRank /\ vResult.results[1].original_rank = 7
    /\ ~CappedItems[2].hasRank /\ vResult.results[2].original_rank = 2

\* the binding mode the configuration fixes
ConfiguredMode == IF env.assistantId THEN "assistant" ELSE "inline"

\* C18: a call issues one remote retrieval request, in the mode the
\* configuration fixes, and never a second one: a failed request is followed
\* neither by a request in the other mode nor by a retry.
C18_OneRequestInConfiguredMode ==
    /\ Len(retrievalRequests) <= 1
    /\ \A k \in 1..Len(retrievalRequests) : retrievalRequests[k] = ConfiguredMode
    /\ (vPc \in {"requesting", "returned"} \/ vRemoteError # "") => Len(retrievalRequests) = 1

\* a request in agent-identifier mode was rejected and the call has thrown
C18_Witness ==
    /\ vPc = "thrown" /\ vRemoteError \in RemoteErrors
    /\ env.assistantId /\ retrievalRequests = <<"assistant">>

\* C19: the switch-to-agent-identifier error is raised for every inline-binding
\* request the service rejects for its binding parameters, and only then;
\* every other remote error, any error of an agent-identifier request
\* included, is propagated unchanged.
C19_BindingHintOnlyForInlineRejection ==
    (vPc = "thrown" /\ vRemoteError # "") =>
        IF retrievalRequests[1] = "inline" /\ vRemoteError = InlineBindingRejected
        THEN vError = BindingHint
        ELSE vError = vRemoteError

ConfigurationErrors == {"Missing OPENAI_API_KEY", "Missing OPENAI_VECTOR_STORE_ID"}

\* C20: a missing credential or index identifier never surfaces as the failure
\* of a search call, and no network call is made without them.
C20_MissingConfigurationNeverFailsACall ==
    /\ (~env.apiKey \/ ~env.vectorStoreId) => retrievalRequests = << >>
    /\ vPc = "thrown" => vError \notin ConfigurationErrors

-----------------------------------------------------------------------------
(* More claims about the local index build, checked under SpecBuild *)

\* the positions of the posts whose combined text has the minimum length
LongEnough(ps) == {k \in 1..Len(ps) : ps[k].textLength >= minTextLength}

\* C21: the documents sent for embedding are the posts whose combined text is
\* neither empty nor shorter than the minimum, in their original order; the
\* others are left out, and leaving one out never aborts the run.
C21_ShortPostsSkippedInOrder ==
    /\ bPc \notin {"start", "returned"} =>
           LET kept == LongEnough(posts)
           IN  /\ Len(documents) = Cardinality(kept)
               /\ \A k \in kept : documents[Cardinality({m \in kept : m <= k})] = posts[k].id
    /\ bPc = "returned" => LongEnough(posts) = {}
    /\ bPc = "failed" => bError \in EmbeddingErrors \cup {MismatchError, WriteError}

\* a run over more than one batch that left out a short post behind the first
C21_Witness ==
    /\ bPc = "done"
    /\ Len(posts) > batchSize /\ posts[2].textLength = minTextLength - 1
    /\ Len(documents) = Len(posts) - 1
    /\ posts[1].textLength = minTextLength /\ documents[1] = posts[1].id

-----------------------------------------------------------------------------
(* Claims about the content fetchers and the exit codes, checked under *)
(* SpecFetchBuild and SpecManagedFetch                                  *)

BuildEnded == bPc \in {"returned", "done", "failed"}

\* C22: the index build exits with code 1 after any fatal error (a failed page
\* request of the content source, an embedding failure, a count mismatch, a
\* failed write) and with code 0 only when none happened.
C22_ExitCodeOneOnFatalError ==
    BuildEnded => (BuildExitCode = 1 <=> (fetchFailed \/ bError # ""))

\* the page size the running fetcher asks the source for
RequestedPageSize == IF mPc # "idle" THEN configuredPerPage ELSE perPageConfig

FetchRunning == bPc = "fetching" \/ mPc = "fetching"

FetchEnded == ~FetchRunning /\ pageRequests # << >>

\* C24: a fetcher requests pages 1, 2, ... in order and goes on exactly while
\* the page returned is full for the page size requested from the source; it
\* stops at the first short, empty or out-of-range page and returns every post
\* of every page fetched, in order: without a failed request that is every
\* post of the source, fetched with one request more than there are full pages.
C24_PaginationWhilePageIsFull ==
    /\ pageRequests = [k \in 1..Len(pageRequests) |-> k]
    /\ FetchRunning =>
           /\ page = Len(pageRequests) + 1
           /\ fetched = SubSeq(source, 1, Len(pageRequests) * RequestedPageSize)
    /\ (FetchEnded /\ ~fetchFailed) =>
           /\ fetched = source
           /\ Len(pageRequests) = Len(source) \div RequestedPageSize + 1
    /\ (FetchEnded /\ bPc # "idle") => posts = fetched

-----------------------------------------------------------------------------
(* Claims about cleanup, checked under SpecCleanup *)

OnlyVsTxtOnly == cOpts = [vsTxtOnly |-> TRUE, deleteTxt |-> FALSE]

\* C23: with --vs-txt-only alone every delete issued is for a listed vector
\* store file whose filename was determined and ends in .txt (in any letter
\* case); no delete goes to the Files storage and none to a local file, and
\* both are left as they were.
C23_VsTxtOnlyDeletesOnlyTxt ==
    /\ []((OnlyVsTxtOnly /\ cPc # "idle") =>
              /\ \A k \in 1..Len(deleteRequests) :
                     /\ deleteRequests[k].api = "vector_store"
                     /\ ToLowerCase(NameOf(deleteRequests[k].id).ext) = "txt"
              /\ cUploadedDeleted = << >>)
    /\ [][OnlyVsTxtOnly =>
              /\ storage' = storage
              /\ localDir' = localDir
              /\ deleteRequests' # deleteRequests =>
                     /\ cFilename # Undefined
                     /\ cFilename = NameOf(cFiles[cIdx])
                     /\ deleteRequests' =
                            Append(deleteRequests, DeleteRequest("vector_store", cFiles[cIdx]))]_vars

\* the run deleted both text files of a store of three and kept the other one
C23_Witness ==
    /\ OnlyVsTxtOnly /\ cPc = "done"
    /\ Len(deleteRequests) = 2 /\ cVsDeleted = <<1, 3>> /\ vsStore = <<2>>
    /\ Len(storage) = 3 /\ Len(localDir) = 2

\* ---------------------------------------------------------------------------
\* C25  In the managed build the batch-creation request is issued at most once
\* in a run, only after every file has been uploaded, with exactly the file
\* identifiers the uploads returned, in upload order; a failed upload ends the
\* run with no batch request, and no step after the request (polling, sleeping,
\* the end of the run) issues another.
UploadedIds == [k \in 1..Len(fileIds) |-> FileId(k)]

C25_OneBatchAfterAllUploads ==
    /\ [](/\ Len(batchRequests) <= 1
          /\ fileIds = UploadedIds
          /\ Len(fileIds) <= Len(files)
          /\ batchRequests # << >> =>
                 /\ Len(fileIds) = Len(files)
                 /\ batchRequests[1] = UploadedIds
          /\ mError.message = "Upload failed" =>
                 /\ mPc = "failed"
                 /\ batchRequests = << >>)
    /\ [][/\ batchRequests' # batchRequests => mPc = "creating"
          /\ mPc = "failed" => mPc' = "failed"]_vars

C25_Witness ==
    /\ mPc = "success"
    /\ Len(files) = MaxFiles
    /\ batchRequests = <<[k \in 1..MaxFiles |-> FileId(k)]>>
    /\ polled.status = "completed"

\* ---------------------------------------------------------------------------
\* C26  No step of semanticSearch writes the snapshot file, and a call issues
\* at most one embedding request: once it has ended it has issued exactly one
\* if the query holds a character that is no whitespace and the file is a JSON
\* object with at least one document, and none otherwise.
QueryIsValid == \E k \in 1..Len(query) : query[k] \notin Whitespace

IndexIsNonEmpty == file.kind = "object" /\ file.hasDocuments /\ file.documents # << >>

SearchEnded == sPc \in {"returned", "thrown"}

C26_NoWriteOneEmbeddingRequest ==
    /\ [](/\ embeddingRequests <= 1
          /\ SearchEnded =>
                 embeddingRequests = IF QueryIsValid /\ IndexIsNonEmpty THEN 1 ELSE 0)
    /\ [][file' = file /\ fileWrites' = fileWrites]_vars

C26_Witness ==
    /\ sPc = "returned"
    /\ embeddingRequests = 1
    /\ snapshotReads = 1
    /\ sResult.total_results = 2
    /\ file = readContent

\* ---------------------------------------------------------------------------
\* C28  The threshold a returned search has applied is the configured
\* MIN_SIMILARITY whenever the configured text is a number, 0 included, and is
\* the default 0.30 only when nothing is configured or the text is no number.
ConfiguredThreshold ==
    LET p == ParseFloat100(minSimilarityEnv)
    IN  IF p.nan THEN 30 ELSE p.v

C28_ThresholdIsConfiguredValue ==
    SearchReturned => MIN_SIMILARITY = ConfiguredThreshold

\* ---------------------------------------------------------------------------
\* C27  A call of cosineSimilarity on two vectors of which at least one has
\* zero norm (every component 0, or no component at all) returns, and the
\* value it returns is 0.
HasZeroNorm(u) == \A i \in 1..Len(u) : u[i] = 0

C27_ZeroNormGivesZero ==
    (cosPc = "returned" /\ (HasZeroNorm(vecA) \/ HasZeroNorm(vecB))) => similarity = ZeroScore

\* ---------------------------------------------------------------------------
\* C29  When semanticSearch has loaded the snapshot a finished build wrote, the
\* loaded documents are the build's documents in the same order and number,
\* the loaded embeddings are the build's embeddings position by position, and
\* every loaded embedding that is not a zero vector has cosine similarity 1
\* with itself.
IsOne(score) == score.den2 # 0 /\ score.num > 0 /\ score.num * score.num = score.den2

LoadedWrittenSnapshot ==
    /\ bPc = "done"
    /\ readContent = Snapshot(documents, embeddings)
    /\ sPc = "embedding" \/ (sPc = "returned" /\ sResult.message = "")

C29_RoundTripAndSelfSimilarity ==
    LoadedWrittenSnapshot =>
        /\ loaded.documents = documents
        /\ Len(loaded.documents) = readContent.total_documents
        /\ loaded.embeddings = embeddings
        /\ \A i \in 1..Len(loaded.embeddings) :
               ~HasZeroNorm(loaded.embeddings[i]) =>
                   IsOne(cosineSimilarity(loaded.embeddings[i], loaded.embeddings[i]))

\* ---------------------------------------------------------------------------
\* C30  The embedding requests of a build carry consecutive batches of the
\* documents in corpus order: every batch has at most batchSize texts, every
\* batch but the last has batchSize of them, together they are a prefix of
\* the documents (all of them once the loop has ended), so each document is in
\* one batch.  At most one request is in flight: a request is issued at the
\* start or in the step that takes the response of the request before.  Once
\* the loop has ended with every response holding one vector per text in
\* order, embeddings[i] is the vector of documents[i].
RECURSIVE Flatten(_)
Flatten(seqs) == IF seqs = << >> THEN << >> ELSE Head(seqs) \o Flatten(Tail(seqs))

ExactResponse(batch) == [j \in 1..Len(batch) |-> EmbedText(batch[j])]

EveryResponseExact ==
    \A k \in 1..Len(embeddingResponses) :
        embeddingResponses[k] = ExactResponse(embeddingBatches[k])

RequestsInFlight ==
    Len(embeddingBatches) - Len(embeddingResponses) - (IF batchRejected THEN 1 ELSE 0)

EmbeddingLoopEnded == bPc \in {"saving", "writing", "done"} \/ bError \in {MismatchError, WriteError}

C30_ConsecutiveBatchesOneInFlight ==
    /\ [](LET sent == Flatten(embeddingBatches)
          IN  /\ \A k \in 1..Len(embeddingBatches) :
                     /\ Len(embeddingBatches[k]) \in 1..batchSize
                     /\ k < Len(embeddingBatches) => Len(embeddingBatches[k]) = batchSize
              /\ Len(sent) <= Len(documents)
              /\ \A i \in 1..Len(sent) : sent[i] = documents[i]
              /\ RequestsInFlight = IF bPc = "embedding" THEN 1 ELSE 0
              /\ EmbeddingLoopEnded =>
                     /\ sent = documents
                     /\ EveryResponseExact =>
                            embeddings = [i \in 1..Len(documents) |-> EmbedText(documents[i])])
    /\ [][Len(embeddingBatches') > Len(embeddingBatches) =>
              /\ Len(embeddingBatches') = Len(embeddingBatches) + 1
              /\ RequestsInFlight = 0 \/ Len(embeddingResponses') = Len(embeddingBatches)]_vars

C30_Witness ==
    /\ bPc = "done"
    /\ Len(documents) = MaxBatches * batchSize + MaxExtra
    /\ Len(embeddingBatches) = MaxBatches + 1
    /\ Len(embeddingBatches[MaxBatches + 1]) = MaxExtra
    /\ EveryResponseExact
    /\ embeddings[Len(documents)] = EmbedText(documents[Len(documents)])

\* ---------------------------------------------------------------------------
\* C31  For a document pushed by processPostsToDocuments the text to embed is
\* the combined text itself when that has at most maxLength characters, and
\* otherwise its first maxLength characters followed by an ellipsis; the text
\* to embed never has more than maxLength characters.
C31_TextWithinBudget ==
    tPc = "pushed" =>
        /\ Len(combinedText) <= maxLength => finalText = combinedText
        /\ Len(combinedText) > maxLength =>
               finalText = [i \in 1..(maxLength + 3) |->
                               IF i <= maxLength THEN combinedText[i] ELSE "."]
        /\ Len(finalText) <= maxLength

\* ---------------------------------------------------------------------------
\* C33  A local build in which the request of a page failed writes no
\* snapshot: the file stays the previous snapshot, and is never one built
\* from the pages fetched before the failure.
C33_NoSnapshotAfterFetchFailure ==
    fetchFailed =>
        /\ fileWrites = 0
        /\ file = previousFile

\* ---------------------------------------------------------------------------
\* C32  waitForBatchCompletion looks at the polled status before the deadline,
\* whatever the timeout: the loop ends only after a status request (successful
\* only after a poll that observed completed), a poll that observes completed
\* ends it successfully even when the timeout has elapsed, and the timeout
\* error is raised only after a poll that observed a status that is not
\* terminal.
PollLoopBegun == batchRequests # << >> /\ job # NoJob

C32_StatusBeforeDeadline ==
    /\ [](/\ mPc = "success" => polled.status = "completed"
          /\ (PollLoopBegun /\ PollLoopEnded) =>
                 polled # NoJob \/ mError.message = "Batch retrieve failed"
          /\ mError = TimeoutError =>
                 /\ polled.status \in {"queued", "in_progress"}
                 /\ elapsed > timeoutMs)
    /\ [][(mPc = "polling" /\ polled' = job /\ job.status = "completed") =>
              (mPc' = "success" /\ mError' = mError)]_vars

\* a poll observed completed after the timeout had elapsed, for a timeout of 0
C32_Witness ==
    /\ mPc = "success"
    /\ polled.status = "completed"
    /\ timeoutMs = 0
    /\ elapsed > timeoutMs

-----------------------------------------------------------------------------
(* Claims about the handlers of the MCP server, checked under SpecMcp *)

HandlerReturned == hPc = "returned"

\* C34  When vectorStoreSearch has returned, the vs_search tool and the
\* vs-search resource return a response whose text is defined and carries the
\* results vectorStoreSearch returned.
C34_VsHandlersCarryResults ==
    (HandlerReturned /\ handler \notin SemanticHandlers /\ vPc = "returned") =>
        /\ response.returned
        /\ response.text.defined
        /\ response.text.kind = "results"
        /\ response.text.results = vResult.results

\* C35  No handler lets an error out: a handler that has ended has returned a
\* response with a defined text, unless the search itself succeeded; when the
\* search threw (invalid query, missing configuration, a remote error) the text
\* is the error text with the message of the search; and a resource asked with
\* an empty or blank query has answered with its prompt and called no search.
BlankResourceQuery ==
    /\ handler \in Resources
    /\ \A i \in 1..Len(queryArg) :
           queryArg[i] \in Whitespace \cup {"%20"} /\ "%" \notin {queryArg[j] : j \in 1..Len(queryArg)}

SearchThrew ==
    IF handler \in SemanticHandlers THEN sPc = "thrown" ELSE vPc = "thrown"

C35_HandlersNeverThrow ==
    /\ hPc # "thrown"
    /\ HandlerReturned =>
           /\ response.returned
           /\ SearchThrew =>
                  /\ response.text.defined
                  /\ response.text.kind = "error"
                  /\ response.text.message = IF handler \in SemanticHandlers THEN sError ELSE vError
           /\ BlankResourceQuery =>
                  /\ response.text = PromptText
                  /\ searchCalls = 0
                  /\ sPc = "idle" /\ vPc = "idle"
                  /\ snapshotReads = 0 /\ retrievalRequests = << >>
    /\ searchCalls > 0 => ~BlankResourceQuery

\* the vs-search resource answered a remote error of the service
C35_Witness ==
    /\ HandlerReturned
    /\ handler = "vs-search"
    /\ queryArg = <<"h", "%20", "i">>
    /\ vQuery = <<"h", " ", "i">>
    /\ vPc = "thrown"
    /\ vRemoteError = "429 Too Many Requests"
    /\ response.text.kind = "error"

\* ---------------------------------------------------------------------------
\* C36  In cleanup, a failed or erroring delete of one remote file never stops
\* the deletion attempts for the remaining listed files, and the list returned
\* by deleteVectorStoreFiles and by deleteUploadedFiles holds exactly the ids
\* whose delete request succeeded, each once, in listing order.
ElementsOf(seq) == {seq[i] : i \in 1..Len(seq)}

\* the ids of the delete requests to an API that succeeded, in request order
SucceededIds(api) ==
    LET positions == SelectSeq([k \in 1..Len(deleteRequests) |-> k],
                               LAMBDA k : deleteRequests[k].api = api /\ deleteOutcomes[k])
    IN  [i \in 1..Len(positions) |-> deleteRequests[positions[i]].id]

\* sub holds elements of seq, each once, in the order seq has them
InOrderOf(sub, seq) == sub = SelectSeq(seq, LAMBDA x : x \in ElementsOf(sub))

InDeleteLoop == cPc \in {"vs_lookup", "vs_delete", "files_delete"}

DeletedOfLoop == IF cPc = "files_delete" THEN cUploadedDeleted ELSE cVsDeleted

\* a step taken when a delete request is answered
DeleteAnswered ==
    cPc \in {"vs_delete", "files_delete"} =>
        /\ Len(deleteRequests') = Len(deleteRequests) + 1
        /\ deleteRequests'[Len(deleteRequests')].id = cFiles[cIdx]
        /\ (IF cPc = "files_delete" THEN cUploadedDeleted' ELSE cVsDeleted') =
               IF deleteOutcomes'[Len(deleteOutcomes')]
               THEN Append(DeletedOfLoop, cFiles[cIdx])
               ELSE DeletedOfLoop
        /\ cIdx < Len(cFiles) =>
               /\ cIdx' = cIdx + 1
               /\ cFiles' = cFiles
               /\ cPc' \in {"vs_lookup", "vs_delete", "files_delete"}

C36_FailedDeleteDoesNotStopLoop ==
    /\ [](/\ Len(deleteOutcomes) = Len(deleteRequests)
          /\ cVsDeleted = SucceededIds("vector_store")
          /\ cUploadedDeleted = SucceededIds("files")
          /\ InDeleteLoop => InOrderOf(DeletedOfLoop, SubSeq(cFiles, 1, cIdx - 1)))
    /\ [][DeleteAnswered]_vars

\* cleanup has ended; in both loops the first delete failed and the later ones
\* were still requested and succeeded
C36_Witness ==
    /\ cPc = "done"
    /\ Len(deleteRequests) = 6
    /\ deleteOutcomes = <<FALSE, TRUE, TRUE, FALSE, TRUE, TRUE>>
    /\ cVsDeleted = <<2, 3>>
    /\ cUploadedDeleted = <<2, 3>>

====
